---------------------------- MODULE Spec2Model ----------------------------
(***************************************************************************)
(* AICore (src/src/PockitAI.ts): the text-based function-calling layer.    *)
(*                                                                         *)
(* A text is a sequence of tokens.  A token is a record                    *)
(*   [k, name, parameters, arguments]                                      *)
(* whose kind k is a tag ("fopen" = <function>, "fclose" = </function>,    *)
(* "topen" = <tool_call>, "tclose" = </tool_call>), "space" (white space), *)
(* "word" (text that is no JSON value; the wording is in name), or a JSON  *)
(* value: "obj" (an object with its name / parameters / arguments fields), *)
(* "num", "null".                                                          *)
(***************************************************************************)
EXTENDS Integers, Sequences, FiniteSets, TLC

\* ------------------------------------------------------------------ bounds
\* largest explicit options.maxToolCalls the caller passes
MaxToolCallsOpt == 2
\* registerTool / unregisterTool calls of a run of the registry
MaxRegistryOps == 3
\* pieces a text handed to parseFunctionCall is put together from
MaxPieces == 3
\* 'interrupt' messages waiting in the worker's queue
MaxInterrupts == 1
\* 'generate' messages posted to a worker on its own
MaxRequests == 2
\* renders of useWebLLM with another options.modelId
MaxModelChanges == 1
\* tool definitions in a list handed to buildSystemPromptWithTools
MaxTools == 3
\* arrays of messages the program and its caller create in a run
MaxArrays == 4
\* messages in an array the caller builds
MaxArrayLen == 1
\* unload() calls of a run that find a worker
MaxUnloads == 1
\* reset() calls of a run of the instance
MaxResets == 1

\* ------------------------------------------------------- program constants
\* options.maxToolCalls ?? 5
DefaultMaxToolCalls == 5

\* ------------------------------------------------------------------ texts
Tok(k, n, p, a) == [k |-> k, name |-> n, parameters |-> p, arguments |-> a]
Tag(k) == Tok(k, "-", "-", "-")
Word(w) == Tok("word", w, "-", "-")
Obj(n, p, a) == Tok("obj", n, p, a)
Lit(k) == Tok(k, "-", "-", "-")

\* a field an object does not carry reads as undefined
Absent == "undefined"
JsonKinds == {"obj", "num", "null"}

\* ------------------------------------------------------------- JS values
\* [t, s]: t is the type; s is the text of a string, the message of an Error,
\* the JSON encoding of an object
JsString(s) == [t |-> "string", s |-> s]
JsObject(enc) == [t |-> "object", s |-> enc]
JsError(msg) == [t |-> "error", s |-> msg]
JsNull == [t |-> "null", s |-> <<>>]
JsUndefined == [t |-> "undefined", s |-> <<>>]
JsNumber == [t |-> "number", s |-> <<Lit("num")>>]
JsBoolean == [t |-> "boolean", s |-> <<Word("true")>>]
\* what a message holds as content when its content is the value undefined,
\* not a text
UndefinedContent == <<Tag("undefined")>>


\* --------------------------------------------------------- parseFunctionCall
\* index of the first token of kind k at or after from; 0 when there is none
FirstIndex(text, k, from) ==
  IF \E i \in from..Len(text) : text[i].k = k
    THEN CHOOSE i \in from..Len(text) :
           text[i].k = k /\ \A j \in from..(i - 1) : text[j].k # k
    ELSE 0

\* response.match(/<open>(.*?)<\/close>/s): the leftmost opening tag that a
\* closing tag follows, and lazily the nearest closing tag after it
RegexMatch(text, open, close) ==
  LET i == FirstIndex(text, open, 1)
      j == IF i = 0 THEN 0 ELSE FirstIndex(text, close, i + 1)
  IN IF i = 0 \/ j = 0
       THEN [matched |-> FALSE, body |-> <<>>]
       ELSE [matched |-> TRUE, body |-> SubSeq(text, i + 1, j - 1)]

RECURSIVE TrimStart(_)
TrimStart(body) ==
  IF body # <<>> /\ Head(body).k = "space" THEN TrimStart(Tail(body)) ELSE body

RECURSIVE TrimEnd(_)
TrimEnd(body) ==
  IF body # <<>> /\ body[Len(body)].k = "space"
    THEN TrimEnd(SubSeq(body, 1, Len(body) - 1))
    ELSE body

\* String.prototype.trim
Trim(body) == TrimEnd(TrimStart(body))

\* JSON.parse: the body is exactly one JSON value, or it throws
JSONparse(body) ==
  IF Len(body) = 1 /\ body[1].k \in JsonKinds
    THEN [ok |-> TRUE, value |-> body[1]]
    ELSE [ok |-> FALSE, value |-> Lit("null")]

\* the values || skips
Falsy == {Absent, "null", "0", "false", "''"}
EmptyMapping == "{}"

\* name of a call whose parsed body carries no name field
UndefinedName == Absent

\* what a call of parseFunctionCall comes to: null (NoCall), a call, or an
\* exception leaving the function
NoCall == [found |-> FALSE, raised |-> FALSE, name |-> "-", parameters |-> "-"]
Call(name, parameters) ==
  [found |-> TRUE, raised |-> FALSE, name |-> name, parameters |-> parameters]
Raised == [found |-> FALSE, raised |-> TRUE, name |-> "-", parameters |-> "-"]

\* mutant: the Hermes form is tried first
FindEnvelopeHermesFirst(response) ==
  LET hermes == RegexMatch(response, "topen", "tclose")
  IN IF hermes.matched THEN hermes ELSE RegexMatch(response, "fopen", "fclose")

\* the match of the Llama form, and only without one the Hermes form
FindEnvelope(response) ==
  LET llama == RegexMatch(response, "fopen", "fclose")
  IN IF llama.matched THEN llama ELSE RegexMatch(response, "topen", "tclose")

\* mutant: a field that is there is used whatever its value (?? for ||)
TryBlockPresence(body) ==
  LET parsed == JSONparse(Trim(body))
      v == parsed.value
  IN IF ~parsed.ok \/ v.k = "null"
       THEN [threw |-> TRUE, call |-> NoCall]
       ELSE [threw |-> FALSE,
             call |->
               Call(IF v.k = "obj" THEN v.name ELSE UndefinedName,
                    IF v.k = "obj" /\ v.parameters # Absent THEN v.parameters
                    ELSE IF v.k = "obj" /\ v.arguments # Absent THEN v.arguments
                    ELSE EmptyMapping)]

\* the try block: JSON.parse, then the property reads; JSON.parse throws on
\* what is no JSON, and reading a property of null throws
TryBlock(body) ==
  LET parsed == JSONparse(Trim(body))
      v == parsed.value
  IN IF ~parsed.ok \/ v.k = "null"
       THEN [threw |-> TRUE, call |-> NoCall]
       ELSE [threw |-> FALSE,
             call |->
               Call(IF v.k = "obj" THEN v.name ELSE UndefinedName,
                    IF v.k = "obj" /\ v.parameters \notin Falsy THEN v.parameters
                    ELSE IF v.k = "obj" /\ v.arguments \notin Falsy THEN v.arguments
                    ELSE EmptyMapping)]

\* mutant: the try block has no catch
ParseBodyNoCatch(body) ==
  IF TryBlock(body).threw THEN Raised ELSE TryBlock(body).call

\* try { ... } catch (e) { ...; return null }
ParseBody(body) ==
  IF TryBlock(body).threw THEN NoCall ELSE TryBlock(body).call


\* mutant: a body that cannot be parsed sends the search on to the
\* <tool_call> envelope
parseFunctionCallFallsBack(response) ==
  LET match == FindEnvelope(response)
      hermes == RegexMatch(response, "topen", "tclose")
  IN IF match.matched /\ ~TryBlock(match.body).threw THEN TryBlock(match.body).call
     ELSE IF hermes.matched THEN ParseBody(hermes.body)
     ELSE NoCall

parseFunctionCall(response) ==
  LET match == FindEnvelope(response)
  IN IF match.matched THEN ParseBody(match.body) ELSE NoCall


\* ------------------------------------------------ buildSystemPromptWithTools
\* a line break of a template literal, and '\n' of join
NL == Lit("nl")

\* a ToolDefinition
ToolDefinition(name, description, parameters) ==
  [type |-> "function",
   function |-> [name |-> name, description |-> description,
                 parameters |-> parameters]]

\* JSON.stringify(value, null, space): the JSON text of the value, which is
\* one line when space is 0
JSONstringify(value, space) ==
  <<[k |-> "json", name |-> value.function.name, parameters |-> "-",
     arguments |-> "-", value |-> value, space |-> space]>>

\* tools.map(t => JSON.stringify(t, null, 0)).join('\n')
RECURSIVE ToolsJson(_)
ToolsJson(ts) ==
  IF ts = <<>> THEN <<>>
  ELSE IF Len(ts) = 1 THEN JSONstringify(Head(ts), 0)
  ELSE JSONstringify(Head(ts), 0) \o <<NL>> \o ToolsJson(Tail(ts))

\* the template literal between ${basePrompt} and ${toolsJson}
PromptHeader ==
  <<NL, NL, Word("You have access to the following functions:"), NL>>

\* the template literal after ${toolsJson}
PromptInstructions ==
  <<NL, NL, Word("When you need to call a function, respond ONLY with:"), NL,
    Tag("fopen"), Obj("function_name", "{param1:value1}", Absent), Tag("fclose"),
    NL, NL,
    Word("Do not add any other text when calling a function. Put the entire function call on one line.")>>

\* mutant: the last tool of the list is left out
buildSystemPromptWithToolsDropsLast(basePrompt, ts) ==
  basePrompt \o PromptHeader
    \o ToolsJson(SubSeq(ts, 1, Len(ts) - 1))
    \o PromptInstructions

buildSystemPromptWithTools(basePrompt, ts) ==
  basePrompt \o PromptHeader \o ToolsJson(ts) \o PromptInstructions

\* ------------------------------------------------------------------ inputs
Msg(role, content, id) == [role |-> role, content |-> content, tool_call_id |-> id]
\* a message without tool_call_id
NoId == "-"

\* what the provider may answer
TextPlain == <<Word("It is sunny.")>>
TextCallF == <<Tag("fopen"), Obj("f", "{a:1}", Absent), Tag("fclose")>>
TextCallG == <<Word("Let me check."), Tag("topen"), Lit("space"),
               Obj("g", Absent, "{b:2}"), Tag("tclose")>>
TextBadBody == <<Tag("fopen"), Word("not json"), Tag("fclose")>>
TextNumBody == <<Tag("fopen"), Lit("num"), Tag("fclose")>>
Completions == {TextPlain, TextCallF, TextCallG, TextBadBody, TextNumBody}

\* the texts parseFunctionCall is tried on: up to MaxPieces pieces in a row
EnvelopeF == <<Tag("fopen"), Obj("f", "{a:1}", Absent), Tag("fclose")>>
EnvelopeG == <<Tag("topen"), Lit("space"), Obj("g", Absent, "{b:2}"), Tag("tclose")>>
EnvelopeBad == <<Tag("fopen"), Word("not json"), Tag("fclose")>>
Pieces ==
  { <<Tag("fopen")>>, <<Tag("fclose")>>, <<Tag("topen")>>, <<Tag("tclose")>>,
    <<Lit("space")>>, <<Word("hi")>>, <<Lit("null")>>, <<Lit("num")>>,
    <<Obj("f", "{a:1}", Absent)>>, <<Obj("g", Absent, "{b:2}")>>,
    <<Obj("f", "0", "{b:2}")>>, <<Obj("g", "null", "0")>>,
    <<Obj(Absent, Absent, Absent)>>,
    EnvelopeF, EnvelopeG, EnvelopeBad }
RECURSIVE TextsOf(_)
TextsOf(n) ==
  IF n = 0 THEN {<<>>}
  ELSE TextsOf(n - 1) \cup {t \o piece : t \in TextsOf(n - 1), piece \in Pieces}
ParseTexts == TextsOf(MaxPieces)

\* data.message of the worker's 'error' message
ProviderErrors == {<<Word("engine failure")>>}

\* the names the caller registers and unregisters
ToolNames == {"f", "g"}

\* the functions the caller registers; NoImpl is what this.tools.get returns
\* for a name without an entry
Implementations == {"impl1", "impl2"}
NoImpl == "undefined"

\* the parameters of a direct executeTool call
DirectParameters == {"{a:1}", "{}"}

\* the tool definitions and base prompts handed to buildSystemPromptWithTools;
\* a base prompt may itself quote a definition
ToolDefinitions ==
  { ToolDefinition("f", "weather of a city", "{city:string}"),
    ToolDefinition("g", "current time", "{}"),
    ToolDefinition("f", "weather of a country", "{country:string}") }
BasePrompts ==
  { <<>>,
    <<Word("You are a helpful assistant.")>>,
    <<Word("Answer like"), NL>>
      \o JSONstringify(ToolDefinition("g", "current time", "{}"), 0) }
RECURSIVE ListsOf(_, _)
ListsOf(S, n) ==
  IF n = 0 THEN {<<>>}
  ELSE ListsOf(S, n - 1) \cup {Append(l, x) : l \in ListsOf(S, n - 1), x \in S}
ToolLists == ListsOf(ToolDefinitions, MaxTools)

\* the messages the caller puts into the arrays it builds
CallerMessages ==
  { Msg("user", <<Word("hello")>>, NoId), Msg("assistant", <<Word("hi")>>, NoId) }

\* the conversation prefixes the caller passes
InputMessages ==
  { <<Msg("user", <<Word("weather?")>>, NoId)>>,
    <<Msg("system", <<Word("You have tools.")>>, NoId),
      Msg("tool", <<Word("stale")>>, "7"),
      Msg("user", <<Word("weather?")>>, NoId)>> }

\* options.maxToolCalls: not supplied, or a number; the calls of this model
\* supply it
OptUnset == [set |-> FALSE, val |-> 0]
OptSet(n) == [set |-> TRUE, val |-> n]
OptionValues ==
  { [maxToolCalls |-> m] : m \in {OptSet(n) : n \in -1..MaxToolCallsOpt} }

\* what an implementation does when invoked: the value it returns (or
\* resolves with), or the value it throws (or rejects with)
Return(v) == [kind |-> "return", value |-> v]
Throw(v) == [kind |-> "throw", value |-> v]
ToolOutcomes ==
  { Return(JsString(<<Word("sunny")>>)),
    Return(JsObject(<<Obj(Absent, Absent, Absent)>>)),
    Throw(JsError(<<Word("boom")>>)),
    Throw(JsString(<<Word("oops")>>)),
    Throw(JsNull) }

\* what options.onToolCall / options.onToolResult do when invoked; the calls
\* of this model supply both observers
ObserverOutcomes ==
  { Return(JsUndefined), Throw(JsError(<<Word("observer failed")>>)) }

\* ------------------------------------------------------------------- state
VARIABLES
  tools,            \* this.tools: the implementation registered under each name
  registrations,    \* the registerTool / unregisterTool calls made, in order
  direct,           \* the caller's own executeTool call
  inbox,            \* messages posted to the worker and not yet handled by it
  gens,             \* the worker's 'generate' handlers that are streaming
  outbox,           \* messages the worker posted and the main thread has not handled
  currentGenerateOptions,  \* this.currentGenerateOptions: whose callbacks it holds
  promise,          \* the promise of each caller's generate call
  pc,               \* where the generateWithTools call stands
  messages,         \* the caller's array
  options,          \* the caller's options
  toolCallCount,    \* let toolCallCount
  currentMessages,  \* let currentMessages
  functionCall,     \* const functionCall of the iteration awaiting its tool
  execution,        \* the executeTool promise: "none", "running", "notRegistered"
  request,          \* the 'generate' message posted to the worker and not yet answered
  outcome,          \* how the promise of generateWithTools settled
  requests,         \* generate calls made by this invocation
  delivered,        \* the worker's answers to this invocation, in order
  calls,            \* the executeTool calls of this invocation and how each settled, in order
  invoked,          \* the implementation invocations of this invocation, in order
  settlement,       \* what the last awaited executeTool promise settled with
  events,           \* the observer invocations of this invocation, in order
  promptCall,       \* the arguments of the buildSystemPromptWithTools calls and what each returned
  arrays,           \* the message arrays that exist, by identity: what each holds now
  conversationHistory,  \* this.conversationHistory: the array it refers to
  held,             \* the arrays the caller has a reference to
  historyLog,       \* the reset / getHistory / setHistory calls made, in order
  worker,           \* this.worker: 0 is null, else the number of the worker
  isLoaded,         \* this.isLoaded
  created,          \* workers created so far
  terminated,       \* the workers terminate() was called on
  posts,            \* every postMessage of the main thread: to which worker, of which type
  initPromise,      \* the promise made by the initialize call that created this.worker
  callOf,           \* the initialize / generate / chat call of each caller: where it stands
  microtasks,       \* continuations of the main thread waiting for the running job to end
  engine,           \* the worker's engine variable
  creating,         \* the worker's 'init' handler is awaiting CreateMLCEngine
  sent,             \* per 'generate' message the worker took: what it posted for it
  served,           \* per stream in gens: the 'generate' message it answers
  modelId,          \* useWebLLM: options.modelId of the latest render
  isLoading,        \* useWebLLM: the state isLoading
  isReady,          \* useWebLLM: the state isReady
  errorMessage,     \* useWebLLM: the state error
  workerRef,        \* useWebLLM: workerRef.current
  currentGenerateOptionsRef, \* useWebLLM: currentGenerateOptionsRef.current
  readyWorker,      \* the worker whose latest report handled was 'ready'
  notified          \* the caller's onFinish / onError invocations of this generateWithTools call

\* the state of a generateWithTools call
loopVars == <<pc, messages, options, toolCallCount, currentMessages,
              functionCall, execution, request, outcome, requests, delivered,
              calls, invoked, settlement, events>>
\* the state of the caller's use of the registry
registryVars == <<registrations, direct>>

\* the worker and the two message queues
workerVars == <<inbox, gens, outbox>>
\* the state of the callers of generate
callerVars == <<currentGenerateOptions, promise>>

\* the state of the operations that do not take part in generateWithTools
historyVars == <<arrays, conversationHistory, held, historyLog>>
\* the instance's worker and the calls that wait for it
instanceVars == <<worker, isLoaded, created, terminated, posts, initPromise, callOf,
                  microtasks, engine, creating, sent, served>>
\* the state of the hook useWebLLM
hookVars == <<modelId, isLoading, isReady, errorMessage, workerRef,
              currentGenerateOptionsRef, readyWorker>>
restVars == <<promptCall, historyVars, instanceVars, hookVars, notified>>

vars == <<tools, loopVars, registryVars, workerVars, callerVars, restVars>>
\* what a step of generateWithTools leaves alone
notLoop == <<registryVars, workerVars, callerVars, restVars>>

NoRequest == [posted |-> FALSE, messages |-> <<>>, final |-> FALSE]
Request(msgs, final) == [posted |-> TRUE, messages |-> msgs, final |-> final]

Pending == [status |-> "pending", value |-> JsUndefined]
Resolved(text) == [status |-> "resolved", value |-> JsString(text)]
Rejected(error) == [status |-> "rejected", value |-> error]

Idle == [status |-> "idle", value |-> JsUndefined]
Settled == {"resolved", "rejected"}
\* the call is suspended at an await
Awaiting == {"awaitGenerate", "awaitTool", "awaitFinal"}

\* the callers of generate; NoCaller is this.currentGenerateOptions = null
Callers == {"first", "second"}
NoCaller == "null"
\* the messages each caller passes, and the text the engine produces for them
MessagesOf(c) == <<Msg("user", <<Word("question of the"), Word(c)>>, NoId)>>
AnswerTo(msgs) == <<Word("answer to the"), msgs[1].content[2]>>
NoSettlement == [kind |-> "none", value |-> JsUndefined]

\* the worker's messages
Complete(text) == [type |-> "complete", data |-> text]
Error(message) == [type |-> "error", data |-> message]

\* ------------------------------------------------------------- executeTool
\* this.tools.get(name)
ToolsGet(name) == IF name \in DOMAIN tools THEN tools[name] ELSE NoImpl

\* if (!implementation) is not taken
Registered(name) == ToolsGet(name) # NoImpl

\* implementation(parameters)
Invocation(name, parameters) ==
  [name |-> name, impl |-> ToolsGet(name), parameters |-> parameters]

\* throw new Error(`Tool '${name}' is not registered`)
NotRegistered(name) ==
  JsError(<<Word("Tool '"), Word(name), Word("' is not registered")>>)

\* mutant: the implementation is invoked a second time
executeToolTwice(name, parameters) ==
  IF Registered(name)
    THEN [execution |-> "running",
          invocations |-> <<Invocation(name, parameters),
                            Invocation(name, parameters)>>]
    ELSE [execution |-> "notRegistered", invocations |-> <<>>]

\* the call up to its await: the lookup, and the invocation of what it found
executeTool(name, parameters) ==
  IF Registered(name)
    THEN [execution |-> "running",
          invocations |-> <<Invocation(name, parameters)>>]
    ELSE [execution |-> "notRegistered", invocations |-> <<>>]

\* ------------------------------------------------------ generateWithTools
\* const maxToolCalls = options.maxToolCalls ?? 5
\* mutant: options.maxToolCalls || 5
MaxToolCallsOrDefault(o) ==
  IF o.maxToolCalls.set /\ o.maxToolCalls.val # 0
    THEN o.maxToolCalls.val
    ELSE DefaultMaxToolCalls

MaxToolCalls(o) ==
  IF o.maxToolCalls.set THEN o.maxToolCalls.val ELSE DefaultMaxToolCalls

\* mutant: the loop runs once too often
LoopGuardOffByOne(count, max) == count <= max

\* while (toolCallCount < maxToolCalls)
LoopGuard(count, max) == count < max

\* typeof result === 'string' ? result : JSON.stringify(result)
\* typeof result === 'string' ? result : JSON.stringify(result);
\* JSON.stringify(undefined) is undefined, JSON.stringify(null) is 'null'
ToolResponse(result) ==
  IF result.t = "string" THEN result.s
  ELSE IF result.t = "undefined" THEN UndefinedContent
  ELSE IF result.t = "null" THEN <<Lit("null")>>
  ELSE result.s

\* mutant: ids counted from zero
ToolCallIdZeroBased(count) == ToString(count - 1)

\* toolCallCount.toString()
ToolCallId(count) == ToString(count)

\* reading error.message in the catch block throws for null and undefined
MessageReadThrows(error) == error.t \in {"null", "undefined"}
TypeError == JsError(<<Word("TypeError: Cannot read properties of null")>>)

\* `Error: ${error.message}`
CatchContent(error) ==
  <<Word("Error: ")>> \o (IF error.t = "error" THEN error.s ELSE <<Word("undefined")>>)

\* mutant: the request is posted before the last message is pushed
LoopTopBeforePush(count, max, msgs, made) ==
  /\ pc' = IF count < max THEN "awaitGenerate" ELSE "awaitFinal"
  /\ request' = Request(SubSeq(msgs, 1, Len(msgs) - 1), ~(count < max))
  /\ requests' = made + 1

\* the top of the while statement, and the final request after it: the next
\* this.generate(currentMessages, ...) call
LoopTop(count, max, msgs, made) ==
  /\ pc' = IF LoopGuard(count, max) THEN "awaitGenerate" ELSE "awaitFinal"
  /\ request' = Request(msgs, ~LoopGuard(count, max))
  /\ requests' = made + 1

\* the call, up to its first await
GenerateWithTools(m, o) ==
  /\ pc \in {"idle"} \cup Settled
  /\ messages' = m
  /\ options' = o
  /\ toolCallCount' = 0
  /\ currentMessages' = m
  /\ functionCall' = NoCall
  /\ execution' = "none"
  /\ outcome' = Pending
  /\ delivered' = <<>>
  /\ calls' = <<>>
  /\ invoked' = <<>>
  /\ settlement' = NoSettlement
  /\ events' = <<>>
  /\ LoopTop(0, MaxToolCalls(o), m, 0)
  /\ UNCHANGED tools

\* mutant: the answer is appended to the running sequence before it is returned
ReturnResponseAppends(text) ==
  /\ pc' = "resolved"
  /\ outcome' = Resolved(text)
  /\ request' = NoRequest
  /\ currentMessages' = Append(currentMessages, Msg("assistant", text, NoId))
  /\ UNCHANGED <<toolCallCount, functionCall, execution, requests, calls, invoked>>

\* if (!functionCall) return response
ReturnResponse(text) ==
  /\ pc' = "resolved"
  /\ outcome' = Resolved(text)
  /\ request' = NoRequest
  /\ UNCHANGED <<toolCallCount, currentMessages, functionCall, execution,
                 requests, calls, invoked>>

\* mutant: the assistant message is not appended
DispatchCallNoAssistant(text, call) ==
  LET started == executeTool(call.name, call.parameters)
  IN /\ toolCallCount' = toolCallCount + 1
     /\ functionCall' = call
     /\ calls' = Append(calls, [name |-> call.name, parameters |-> call.parameters,
                                 registered |-> Registered(call.name),
                                 impl |-> ToolsGet(call.name),
                                 outcome |-> NoSettlement])
     /\ execution' = started.execution
     /\ invoked' = invoked \o started.invocations
     /\ pc' = "awaitTool"
     /\ request' = NoRequest
     /\ UNCHANGED <<outcome, requests, currentMessages>>

\* mutant: executeTool is not awaited, the next request goes out at once
DispatchCallNotAwaited(text, call) ==
  LET started == executeTool(call.name, call.parameters)
  IN /\ toolCallCount' = toolCallCount + 1
     /\ currentMessages' = Append(currentMessages, Msg("assistant", text, NoId))
     /\ functionCall' = call
     /\ calls' = Append(calls, [name |-> call.name, parameters |-> call.parameters,
                                 registered |-> Registered(call.name),
                                 impl |-> ToolsGet(call.name),
                                 outcome |-> NoSettlement])
     /\ execution' = started.execution
     /\ invoked' = invoked \o started.invocations
     /\ pc' = "awaitTool"
     /\ request' = Request(currentMessages', FALSE)
     /\ requests' = requests + 1
     /\ UNCHANGED outcome

\* a call was parsed: count it, append the assistant message, call executeTool
DispatchCall(text, call) ==
  LET started == executeTool(call.name, call.parameters)
  IN /\ toolCallCount' = toolCallCount + 1
     /\ currentMessages' = Append(currentMessages, Msg("assistant", text, NoId))
     /\ functionCall' = call
     /\ calls' = Append(calls, [name |-> call.name, parameters |-> call.parameters,
                                 registered |-> Registered(call.name),
                                 impl |-> ToolsGet(call.name),
                                 outcome |-> NoSettlement])
     /\ execution' = started.execution
     /\ invoked' = invoked \o started.invocations
     /\ pc' = "awaitTool"
     /\ request' = NoRequest
     /\ UNCHANGED <<outcome, requests>>

\* an observer invocation: which observer, what it was handed, the value of
\* toolCallCount at that moment, whether it threw
Event(observer, name, parameters, result, count, obs) ==
  [observer |-> observer, name |-> name, parameters |-> parameters,
   result |-> result, count |-> count, threw |-> obs.kind = "throw"]

\* options.onToolCall?.(functionCall.name, functionCall.parameters), after
\* toolCallCount++
ToolCallEvents(call, count, obs) ==
  <<Event("onToolCall", call.name, call.parameters, JsUndefined, count, obs)>>

\* onToolCall threw: nothing catches it, and the call rejects with it
ObserverRejects(error) ==
  /\ toolCallCount' = toolCallCount + 1
  /\ pc' = "rejected"
  /\ outcome' = Rejected(error)
  /\ request' = NoRequest
  /\ UNCHANGED <<currentMessages, functionCall, execution, requests, calls,
                 invoked>>

\* an exception of parseFunctionCall would leave generateWithTools with it
SyntaxError == JsError(<<Word("SyntaxError")>>)
ParseRejects ==
  /\ pc' = "rejected"
  /\ outcome' = Rejected(SyntaxError)
  /\ request' = NoRequest
  /\ UNCHANGED <<toolCallCount, currentMessages, functionCall, execution,
                 requests, calls, invoked, events>>

\* 'complete' for a request of the loop: parse, and return or notify the
\* observer and dispatch
OnComplete(text, obs) ==
  /\ pc = "awaitGenerate"
  /\ delivered' = Append(delivered, Complete(text))
  /\ LET call == parseFunctionCall(text)
     IN IF call.raised
          THEN ParseRejects
        ELSE IF ~call.found
          THEN ReturnResponse(text) /\ UNCHANGED events
          ELSE /\ events' = events \o ToolCallEvents(call, toolCallCount + 1, obs)
               /\ IF obs.kind = "throw"
                    THEN ObserverRejects(obs.value)
                    ELSE DispatchCall(text, call)
  /\ UNCHANGED <<tools, messages, options, settlement>>

\* what the awaited executeTool promise can settle with
\* what an implementation can return or throw
ImplementationOutcomes ==
  ToolOutcomes \cup {Return(JsNull), Return(JsUndefined), Return(JsNumber),
                     Return(JsBoolean)}

ExecutionOutcomes ==
  IF execution = "running" THEN ImplementationOutcomes
  ELSE {Throw(NotRegistered(functionCall.name))}

\* mutant: a result that is no string cannot be put into a message
AppendResultStringsOnly(result) ==
  IF result.t = "string"
    THEN /\ currentMessages' =
              Append(currentMessages,
                     Msg("tool", ToolResponse(result), ToolCallId(toolCallCount)))
         /\ LoopTop(toolCallCount, MaxToolCalls(options), currentMessages', requests)
         /\ UNCHANGED outcome
    ELSE /\ pc' = "rejected"
         /\ outcome' = Rejected(TypeError)
         /\ UNCHANGED <<currentMessages, request, requests>>

\* the rest of the try block: the tool message of a result
AppendResult(result) ==
  /\ currentMessages' =
       Append(currentMessages,
              Msg("tool", ToolResponse(result), ToolCallId(toolCallCount)))
  /\ LoopTop(toolCallCount, MaxToolCalls(options), currentMessages', requests)
  /\ UNCHANGED outcome

\* mutant: the error is dropped and the loop goes on
CatchErrorSwallows(error) ==
  /\ LoopTop(toolCallCount, MaxToolCalls(options), currentMessages, requests)
  /\ UNCHANGED <<outcome, currentMessages>>

\* mutant: no catch block, the error rejects the call
CatchErrorRethrows(error) ==
  /\ pc' = "rejected"
  /\ outcome' = Rejected(error)
  /\ UNCHANGED <<currentMessages, request, requests>>

\* the catch block: the tool message of an error
CatchError(error) ==
  IF MessageReadThrows(error)
    THEN /\ pc' = "rejected"
         /\ outcome' = Rejected(TypeError)
         /\ UNCHANGED <<currentMessages, request, requests>>
    ELSE /\ currentMessages' =
              Append(currentMessages,
                     Msg("tool", CatchContent(error), ToolCallId(toolCallCount)))
         /\ LoopTop(toolCallCount, MaxToolCalls(options), currentMessages', requests)
         /\ UNCHANGED outcome

\* mutant: the observer is told of failures too
ToolResultEventsAlways(name, o, count, obs) ==
  <<Event("onToolResult", name, "-", o.value, count, obs)>>

\* options.onToolResult?.(functionCall.name, result): reached only when the
\* awaited executeTool returned
ToolResultEvents(name, o, count, obs) ==
  IF o.kind = "return"
    THEN <<Event("onToolResult", name, "-", o.value, count, obs)>>
    ELSE <<>>

\* mutant: no copy of the caller's array was made, the tool message lands in it
ToolSettledOnCallersArray(o, obs) ==
  /\ pc = "awaitTool"
  /\ o \in ExecutionOutcomes
  /\ settlement' = o
  /\ execution' = "none"
  /\ functionCall' = NoCall
  /\ events' = events \o ToolResultEvents(functionCall.name, o, toolCallCount, obs)
  /\ IF o.kind = "throw" THEN CatchError(o.value)
     ELSE IF obs.kind = "throw" THEN CatchError(obs.value)
     ELSE AppendResult(o.value)
  /\ calls' = [calls EXCEPT ![Len(calls)].outcome = o]
  /\ messages' = currentMessages'
  /\ UNCHANGED <<tools, options, toolCallCount, delivered, invoked>>

\* the executeTool promise settles: the rest of the try statement (whatever
\* it throws, onToolResult included, lands in the catch block), then the top
\* of the loop
ToolSettled(o, obs) ==
  /\ pc = "awaitTool"
  /\ o \in ExecutionOutcomes
  /\ settlement' = o
  /\ execution' = "none"
  /\ functionCall' = NoCall
  /\ events' = events \o ToolResultEvents(functionCall.name, o, toolCallCount, obs)
  /\ IF o.kind = "throw" THEN CatchError(o.value)
     ELSE IF obs.kind = "throw" THEN CatchError(obs.value)
     ELSE AppendResult(o.value)
  /\ calls' = [calls EXCEPT ![Len(calls)].outcome = o]
  /\ UNCHANGED <<tools, messages, options, toolCallCount, delivered, invoked>>

\* 'complete' for the final request: its text is the result
OnCompleteFinal(text) ==
  /\ pc = "awaitFinal"
  /\ delivered' = Append(delivered, Complete(text))
  /\ pc' = "resolved"
  /\ outcome' = Resolved(text)
  /\ request' = NoRequest
  /\ UNCHANGED <<tools, messages, options, toolCallCount, currentMessages,
                 functionCall, execution, requests, calls, invoked, settlement,
                 events>>

\* mutant: the first failure of an invocation is answered by posting the
\* request again
OnErrorRetries(message) ==
  /\ pc \in {"awaitGenerate", "awaitFinal"}
  /\ delivered' = Append(delivered, Error(message))
  /\ IF \E i \in DOMAIN delivered : delivered[i].type = "error"
       THEN /\ pc' = "rejected"
            /\ outcome' = Rejected(JsError(message))
            /\ request' = NoRequest
            /\ UNCHANGED requests
       ELSE /\ requests' = requests + 1
            /\ UNCHANGED <<pc, outcome, request>>
  /\ UNCHANGED <<tools, messages, options, toolCallCount, currentMessages,
                 functionCall, execution, calls, invoked, settlement, events>>

\* 'error' for a request: generate rejects, and generateWithTools with it
OnError(message) ==
  /\ pc \in {"awaitGenerate", "awaitFinal"}
  /\ delivered' = Append(delivered, Error(message))
  /\ pc' = "rejected"
  /\ outcome' = Rejected(JsError(message))
  /\ request' = NoRequest
  /\ UNCHANGED <<tools, messages, options, toolCallCount, currentMessages,
                 functionCall, execution, requests, calls, invoked, settlement,
                 events>>

\* ---------------------------------------------------------------- registry
\* mutant: a name that has an implementation keeps it
registerToolKeepsFirst(name, implementation) ==
  /\ tools' = IF tools[name] = NoImpl
                THEN [tools EXCEPT ![name] = implementation]
                ELSE tools
  /\ UNCHANGED loopVars

\* this.tools.set(name, implementation)
registerTool(name, implementation) ==
  /\ tools' = [tools EXCEPT ![name] = implementation]
  /\ UNCHANGED loopVars

\* this.tools.delete(name)
unregisterTool(name) ==
  /\ tools' = [tools EXCEPT ![name] = NoImpl]
  /\ UNCHANGED loopVars

\* the log of the registry calls
Registration(op, name, implementation) ==
  [op |-> op, name |-> name, impl |-> implementation]

\* ------------------------------------------- executeTool, called directly
NoDirect ==
  [status |-> "none", name |-> "-", parameters |-> "-", at |-> 0,
   invocations |-> <<>>, implementation |-> NoSettlement, result |-> NoSettlement]

\* the caller's executeTool(name, parameters), up to its await; at is the
\* number of registry calls made before it
CallExecuteTool(name, parameters) ==
  /\ direct.status # "running"
  /\ LET started == executeTool(name, parameters)
     IN direct' =
          [status |-> IF started.execution = "running" THEN "running" ELSE "rejected",
           name |-> name,
           parameters |-> parameters,
           at |-> Len(registrations),
           invocations |-> started.invocations,
           implementation |-> NoSettlement,
           result |-> IF started.execution = "running"
                        THEN NoSettlement
                        ELSE Throw(NotRegistered(name))]
  /\ UNCHANGED <<tools, registrations, loopVars, workerVars, callerVars, restVars>>

\* return await implementation(parameters): the promise of executeTool
\* settles as the implementation does
DirectSettles(o) ==
  /\ direct.status = "running"
  /\ direct' = [direct EXCEPT !.status = IF o.kind = "return" THEN "resolved" ELSE "rejected",
                              !.implementation = o,
                              !.result = o]
  /\ UNCHANGED <<tools, registrations, loopVars, workerVars, callerVars, restVars>>

\* ------------------------------------------------------------------ worker
Last(seq) == seq[Len(seq)]
\* the messages of the main thread
GenerateMessage(msgs) == [type |-> "generate", messages |-> msgs]
InterruptMessage == [type |-> "interrupt", messages |-> <<>>]
\* a 'chunk' message of the worker
Chunk(content) == [type |-> "chunk", data |-> content]

\* the worker takes a 'generate' message: engine.chat.completions.create
\* starts the stream of the text the engine will produce
WorkerGenerate(target) ==
  /\ inbox # <<>>
  /\ Head(inbox).type = "generate"
  /\ inbox' = Tail(inbox)
  /\ gens' = Append(gens, [messages |-> Head(inbox).messages, fullText |-> <<>>,
                           rest |-> target, stopped |-> FALSE])
  /\ UNCHANGED outbox

\* the worker takes an 'interrupt' message: engine.interruptGenerate() ends
\* the streams of the engine
WorkerInterrupt ==
  /\ inbox # <<>>
  /\ Head(inbox).type = "interrupt"
  /\ inbox' = Tail(inbox)
  /\ gens' = [i \in DOMAIN gens |-> [gens[i] EXCEPT !.stopped = TRUE]]
  /\ UNCHANGED outbox

\* mutant: a stream goes on after the interrupt
WorkerChunkIgnoresInterrupt(i) ==
  /\ i \in DOMAIN gens
  /\ gens[i].rest # <<>>
  /\ gens' = [gens EXCEPT ![i].fullText = Append(@, Head(gens[i].rest)),
                          ![i].rest = Tail(@)]
  /\ outbox' = Append(outbox, Chunk(<<Head(gens[i].rest)>>))
  /\ UNCHANGED inbox

\* mutant: the chunk is posted but not added to fullText
WorkerChunkForgetsText(i) ==
  /\ i \in DOMAIN gens
  /\ ~gens[i].stopped
  /\ gens[i].rest # <<>>
  /\ gens' = [gens EXCEPT ![i].rest = Tail(@)]
  /\ outbox' = Append(outbox, Chunk(<<Head(gens[i].rest)>>))
  /\ UNCHANGED inbox

\* one round of for await (const chunk of chunks): fullText += content, and
\* the 'chunk' message
WorkerChunk(i) ==
  /\ i \in DOMAIN gens
  /\ ~gens[i].stopped
  /\ gens[i].rest # <<>>
  /\ gens' = [gens EXCEPT ![i].fullText = Append(@, Head(gens[i].rest)),
                          ![i].rest = Tail(@)]
  /\ outbox' = Append(outbox, Chunk(<<Head(gens[i].rest)>>))
  /\ UNCHANGED inbox

Without(seq, i) == SubSeq(seq, 1, i - 1) \o SubSeq(seq, i + 1, Len(seq))

\* the stream has ended: the 'complete' message with fullText
WorkerComplete(i) ==
  /\ i \in DOMAIN gens
  /\ gens[i].stopped \/ gens[i].rest = <<>>
  /\ outbox' = Append(outbox, Complete(gens[i].fullText))
  /\ gens' = Without(gens, i)
  /\ UNCHANGED inbox

\* the engine throws while it generates: the catch block's 'error' message
WorkerFails(i, message) ==
  /\ i \in DOMAIN gens
  /\ ~gens[i].stopped
  /\ outbox' = Append(outbox, Error(message))
  /\ gens' = Without(gens, i)
  /\ UNCHANGED inbox

\* interrupt(): this.worker?.postMessage({ type: 'interrupt' })
interrupt ==
  /\ inbox' = Append(inbox, InterruptMessage)
  /\ UNCHANGED <<gens, outbox>>

\* case 'chunk': this.currentGenerateOptions?.onUpdate?.(data.chunk)
OnChunk ==
  /\ outbox # <<>>
  /\ Head(outbox).type = "chunk"
  /\ outbox' = Tail(outbox)
  /\ UNCHANGED <<inbox, gens>>

\* ------------------------------------------------ generate, called directly
\* generate(messages) of caller c on a loaded instance: the callbacks go into
\* this.currentGenerateOptions and the 'generate' message is posted
Generate(c) ==
  /\ promise[c].status = "idle"
  /\ promise' = [promise EXCEPT ![c] = Pending]
  /\ currentGenerateOptions' = c
  /\ inbox' = Append(inbox, GenerateMessage(MessagesOf(c)))
  /\ UNCHANGED <<gens, outbox>>

\* case 'complete': this.currentGenerateOptions?.onFinish?.(data.text), then
\* this.currentGenerateOptions = null
OnCompleteMessage ==
  /\ outbox # <<>>
  /\ Head(outbox).type = "complete"
  /\ outbox' = Tail(outbox)
  /\ promise' = IF currentGenerateOptions = NoCaller THEN promise
                ELSE [promise EXCEPT ![currentGenerateOptions] =
                        IF @.status = "pending" THEN Resolved(Head(outbox).data)
                        ELSE @]
  /\ currentGenerateOptions' = NoCaller
  /\ UNCHANGED <<inbox, gens>>

\* case 'error': this.currentGenerateOptions?.onError?.(error), then
\* this.currentGenerateOptions = null
OnErrorMessage ==
  /\ outbox # <<>>
  /\ Head(outbox).type = "error"
  /\ outbox' = Tail(outbox)
  /\ promise' = IF currentGenerateOptions = NoCaller THEN promise
                ELSE [promise EXCEPT ![currentGenerateOptions] =
                        IF @.status = "pending" THEN Rejected(JsError(Head(outbox).data))
                        ELSE @]
  /\ currentGenerateOptions' = NoCaller
  /\ UNCHANGED <<inbox, gens>>

\* ------------------------------------------- reset, getHistory, setHistory
\* [...array]: a new array holding the elements of the old one
CopyOf(array) == Append(arrays, arrays[array])
\* the identity of the array the last array literal or spread created
Newest == Len(arrays')

HistoryCall(op, array) ==
  [op |-> op, array |-> array, contents |-> arrays'[array]]

\* reset(): this.conversationHistory = []
reset ==
  /\ arrays' = Append(arrays, <<>>)
  /\ conversationHistory' = Newest
  /\ historyLog' = Append(historyLog, HistoryCall("reset", Newest))
  /\ UNCHANGED held

\* getHistory(): return [...this.conversationHistory]
getHistory ==
  /\ arrays' = CopyOf(conversationHistory)
  /\ held' = held \cup {Newest}
  /\ historyLog' = Append(historyLog, HistoryCall("getHistory", Newest))
  /\ UNCHANGED conversationHistory

\* mutant: the array of the caller is stored as it is
setHistoryKeepsReference(history) ==
  /\ UNCHANGED <<arrays, held>>
  /\ conversationHistory' = history
  /\ historyLog' = Append(historyLog, HistoryCall("setHistory", history))

\* setHistory(history): this.conversationHistory = [...history]
setHistory(history) ==
  /\ arrays' = CopyOf(history)
  /\ conversationHistory' = Newest
  /\ historyLog' = Append(historyLog, HistoryCall("setHistory", history))
  /\ UNCHANGED held

\* the caller changes an array it holds: push, pop, or length = 0
CallerPushes(array, message) ==
  /\ array \in held
  /\ Len(arrays[array]) < MaxArrayLen
  /\ arrays' = [arrays EXCEPT ![array] = Append(@, message)]
  /\ UNCHANGED <<conversationHistory, held, historyLog>>

CallerPops(array) ==
  /\ array \in held
  /\ arrays[array] # <<>>
  /\ arrays' = [arrays EXCEPT ![array] = SubSeq(@, 1, Len(@) - 1)]
  /\ UNCHANGED <<conversationHistory, held, historyLog>>

\* --------------------------------------- initialize, generate, chat, unload
\* a call that was not made
NoOp ==
  [op |-> "none", pc |-> "none", stage |-> "none", awaits |-> 0, array |-> 0,
   before |-> <<>>, request |-> <<>>, after |-> <<>>, result |-> Idle]

\* the messages of the main thread that carry no conversation
InitMessage == [type |-> "init", messages |-> <<>>]
UnloadMessage == [type |-> "unload", messages |-> <<>>]
Post(to, type) == [to |-> to, type |-> type]

\* the user message chat(message) of caller c pushes
UserMessage(c) == MessagesOf(c)[1]

\* the text the engine produces for a conversation: one piece, telling what
\* it answers
ReplyTo(msgs) ==
  <<[k |-> "word", name |-> "reply", parameters |-> "-", arguments |-> "-",
     to |-> msgs]>>

\* the worker's messages that carry no text
Ready == [type |-> "ready", data |-> <<>>]
EngineNotInitialized == <<Word("Engine not initialized or no messages provided")>>
LoadErrors == {<<Word("load failed")>>}

\* a promise of void that was resolved
Fulfilled == [status |-> "resolved", value |-> JsUndefined]

\* if (!this.worker || !this.isLoaded)
NeedsInitialize == worker = 0 \/ ~isLoaded

\* initialize(): if (this.isLoaded || this.worker) return
\* mutant: initialize() looks at this.isLoaded only
InitializeReturnsWhenLoaded == isLoaded

InitializeReturnsAtOnce == isLoaded \/ worker # 0

\* what a call does up to its next await: whether it pushes the user
\* message, what it does then ("create" a worker and wait for its promise,
\* wait a "tick" for a promise that is resolved already, "post" the request,
\* "resolve"), and at which stage it goes on afterwards
Step(push, then, stage) == [push |-> push, then |-> then, stage |-> stage]

\* await this.initialize()
AwaitInitialize(push, next) ==
  IF InitializeReturnsAtOnce
    THEN Step(push, "tick", next)
    ELSE Step(push, "create", next)

\* generate(messages, options), from its first statement
EnterGenerate(push) ==
  IF NeedsInitialize THEN AwaitInitialize(push, "post") ELSE Step(push, "post", "done")

\* the code of initialize, generate and chat from a stage on
Decide(stage) ==
  CASE stage = "initialize" ->
         IF InitializeReturnsAtOnce
           THEN Step(FALSE, "resolve", "done")
           ELSE Step(FALSE, "create", "resolve")
    [] stage = "resolve" -> Step(FALSE, "resolve", "done")
    [] stage = "generate" -> EnterGenerate(FALSE)
    [] stage = "post" -> Step(FALSE, "post", "done")
    [] stage = "chat" ->
         IF NeedsInitialize THEN AwaitInitialize(FALSE, "push") ELSE EnterGenerate(TRUE)
    [] stage = "push" -> EnterGenerate(TRUE)

\* a continuation: of which caller, how it goes on, and with what
Job(c, how, value) == [caller |-> c, how |-> how, value |-> value]

\* the call of caller c runs up to its next await; queue is what waits
\* behind it; chat hands the array this.conversationHistory refers to when
\* it has pushed to generate, which posts what that array holds
Run(c, base, d, queue) ==
  LET pushed == IF d.push
                  THEN [arrays EXCEPT ![conversationHistory] = Append(@, UserMessage(c))]
                  ELSE arrays
      based == IF d.push THEN [base EXCEPT !.array = conversationHistory] ELSE base
      contents == IF base.op = "chat" THEN pushed[based.array] ELSE MessagesOf(c)
      entered == d.push \/ base.op = "generate"
      waiting == IF entered /\ promise[c].status = "idle"
                   THEN [promise EXCEPT ![c] = Pending]
                   ELSE promise
  IN /\ arrays' = pushed
     /\ CASE d.then = "resolve" ->
               /\ callOf' = [callOf EXCEPT ![c] =
                               [based EXCEPT !.pc = "done", !.stage = "done",
                                            !.result = Fulfilled]]
               /\ microtasks' = queue
               /\ UNCHANGED <<worker, created, initPromise, inbox, posts,
                              currentGenerateOptions, promise>>
          [] d.then = "create" ->
               /\ created' = created + 1
               /\ worker' = created + 1
               /\ initPromise' = "pending"
               /\ inbox' = Append(inbox, InitMessage)
               /\ posts' = Append(posts, Post(created + 1, "init"))
               /\ callOf' = [callOf EXCEPT ![c] =
                               [based EXCEPT !.pc = "awaitInit", !.stage = d.stage,
                                            !.awaits = created + 1, !.result = Pending]]
               /\ promise' = waiting
               /\ microtasks' = queue
               /\ UNCHANGED currentGenerateOptions
          [] d.then = "tick" ->
               /\ callOf' = [callOf EXCEPT ![c] =
                               [based EXCEPT !.pc = "tick", !.stage = d.stage,
                                            !.result = Pending]]
               /\ promise' = waiting
               /\ microtasks' = Append(queue, Job(c, "resume", JsUndefined))
               /\ UNCHANGED <<worker, created, initPromise, inbox, posts,
                              currentGenerateOptions>>
          [] d.then = "post" ->
               /\ currentGenerateOptions' = c
               /\ microtasks' = queue
               /\ IF worker = 0
                    THEN /\ promise' = [promise EXCEPT ![c] = Rejected(TypeError)]
                         /\ callOf' = [callOf EXCEPT ![c] =
                                         [based EXCEPT !.pc = "done", !.stage = "done",
                                                      !.result = Rejected(TypeError)]]
                         /\ UNCHANGED <<inbox, posts>>
                    ELSE /\ promise' = [promise EXCEPT ![c] = Pending]
                         /\ callOf' = [callOf EXCEPT ![c] =
                                         [based EXCEPT !.pc = "awaitGenerate",
                                                      !.stage = "done",
                                                      !.request = contents,
                                                      !.result = Pending]]
                         /\ inbox' = Append(inbox, GenerateMessage(contents))
                         /\ posts' = Append(posts, Post(worker, "generate"))
               /\ UNCHANGED <<worker, created, initPromise>>
     /\ UNCHANGED <<isLoaded, terminated, engine, creating, gens, outbox,
                    conversationHistory, held, historyLog>>

\* the call as it is made: the operation, and the history at that moment
Started(op) == [NoOp EXCEPT !.op = op, !.before = arrays[conversationHistory]]

\* initialize()
initialize(c) ==
  /\ callOf[c].op = "none"
  /\ Run(c, Started("initialize"), Decide("initialize"), microtasks)

\* generate(messages) of caller c
generate(c) ==
  /\ callOf[c].op = "none"
  /\ Run(c, Started("generate"), Decide("generate"), microtasks)

\* chat(message) of caller c
chat(c) ==
  /\ callOf[c].op = "none"
  /\ Run(c, Started("chat"), Decide("chat"), microtasks)

\* the next continuation runs: a call goes on after its await
RunMicrotask ==
  /\ microtasks # <<>>
  /\ LET job == Head(microtasks)
         c == job.caller
         base == callOf[c]
     IN CASE job.how = "resume" ->
               Run(c, base, Decide(base.stage), Tail(microtasks))
          [] job.how = "reject" ->
               /\ callOf' = [callOf EXCEPT ![c] =
                               [base EXCEPT !.pc = "done", !.stage = "done",
                                            !.result = Rejected(job.value)]]
               /\ promise' = IF promise[c].status = "pending"
                               THEN [promise EXCEPT ![c] = Rejected(job.value)]
                               ELSE promise
               /\ microtasks' = Tail(microtasks)
               /\ UNCHANGED <<arrays, worker, created, initPromise, inbox, posts,
                              currentGenerateOptions, isLoaded, terminated, engine,
                              creating, gens, outbox, conversationHistory, held,
                              historyLog>>
          [] job.how = "assistant" ->
               /\ arrays' = [arrays EXCEPT ![conversationHistory] =
                               Append(@, Msg("assistant", job.value.s, NoId))]
               /\ callOf' = [callOf EXCEPT ![c] =
                               [base EXCEPT !.pc = "done", !.stage = "done",
                                            !.after = arrays'[conversationHistory],
                                            !.result = Resolved(job.value.s)]]
               /\ microtasks' = Tail(microtasks)
               /\ UNCHANGED <<promise, worker, created, initPromise, inbox, posts,
                              currentGenerateOptions, isLoaded, terminated, engine,
                              creating, gens, outbox, conversationHistory, held,
                              historyLog>>

\* the call that awaits the promise of the initialize call which created
\* this.worker
Waiters == {c \in Callers : callOf[c].pc = "awaitInit" /\ callOf[c].awaits = worker}
WaiterJobs(how, value) ==
  IF initPromise = "pending" /\ Waiters # {}
    THEN <<Job(CHOOSE c \in Waiters : TRUE, how, value)>>
    ELSE <<>>

\* the caller whose generate call this.currentGenerateOptions serves
Served ==
  /\ currentGenerateOptions # NoCaller
  /\ callOf[currentGenerateOptions].pc = "awaitGenerate"

\* case 'ready': this.isLoaded = true; resolve()
HandleReady ==
  /\ microtasks = <<>>
  /\ outbox # <<>>
  /\ Head(outbox).type = "ready"
  /\ outbox' = Tail(outbox)
  /\ isLoaded' = TRUE
  /\ initPromise' = IF initPromise = "pending" THEN "resolved" ELSE initPromise
  /\ microtasks' = WaiterJobs("resume", JsUndefined)
  /\ UNCHANGED <<worker, created, terminated, posts, callOf, engine, creating,
                 inbox, gens, currentGenerateOptions, promise, historyVars>>

\* case 'chunk'
HandleChunk ==
  /\ microtasks = <<>>
  /\ OnChunk
  /\ UNCHANGED <<instanceVars, currentGenerateOptions, promise, historyVars>>

\* case 'complete': the generate call is resolved, and a chat call that
\* awaits it goes on in the next continuation
HandleComplete ==
  /\ microtasks = <<>>
  /\ OnCompleteMessage
  /\ LET c == currentGenerateOptions
         text == Head(outbox).data
     IN IF Served /\ callOf[c].op = "chat"
          THEN /\ microtasks' = <<Job(c, "assistant", JsString(text))>>
               /\ callOf' = [callOf EXCEPT ![c].pc = "settling"]
        ELSE IF Served
          THEN /\ microtasks' = <<>>
               /\ callOf' = [callOf EXCEPT ![c].pc = "done",
                                           ![c].result = Resolved(text)]
          ELSE UNCHANGED <<microtasks, callOf>>
  /\ UNCHANGED <<worker, isLoaded, created, terminated, posts, initPromise, engine,
                 creating, historyVars>>

\* case 'error': the generate call is rejected, then reject(error) of the
\* initialize call
HandleError ==
  /\ microtasks = <<>>
  /\ OnErrorMessage
  /\ initPromise' = IF initPromise = "pending" THEN "rejected" ELSE initPromise
  /\ LET c == currentGenerateOptions
         error == JsError(Head(outbox).data)
     IN IF Served /\ callOf[c].op = "chat"
          THEN /\ microtasks' = <<Job(c, "reject", error)>> \o WaiterJobs("reject", error)
               /\ callOf' = [callOf EXCEPT ![c].pc = "settling"]
        ELSE IF Served
          THEN /\ microtasks' = WaiterJobs("reject", error)
               /\ callOf' = [callOf EXCEPT ![c].pc = "done",
                                           ![c].result = Rejected(error)]
          ELSE /\ microtasks' = WaiterJobs("reject", error)
               /\ UNCHANGED callOf
  /\ UNCHANGED <<worker, isLoaded, created, terminated, posts, engine, creating,
                 historyVars>>

\* mutant: the worker is terminated but kept
unloadKeepsWorker ==
  /\ worker # 0
  /\ posts' = Append(posts, Post(worker, "unload"))
  /\ terminated' = terminated \cup {worker}
  /\ isLoaded' = FALSE
  /\ inbox' = <<>>
  /\ gens' = <<>>
  /\ outbox' = <<>>
  /\ engine' = "null"
  /\ creating' = FALSE
  /\ UNCHANGED <<worker, created, initPromise, callOf, microtasks,
                 currentGenerateOptions, promise, historyVars>>

\* unload(): the 'unload' message, terminate(), this.worker = null,
\* this.isLoaded = false; a terminated worker handles nothing more, and
\* nothing of what it posted is delivered
unload ==
  /\ worker # 0
  /\ posts' = Append(posts, Post(worker, "unload"))
  /\ terminated' = terminated \cup {worker}
  /\ worker' = 0
  /\ isLoaded' = FALSE
  /\ inbox' = <<>>
  /\ gens' = <<>>
  /\ outbox' = <<>>
  /\ engine' = "null"
  /\ creating' = FALSE
  /\ UNCHANGED <<created, initPromise, callOf, microtasks, currentGenerateOptions,
                 promise, historyVars>>

\* the worker takes the 'init' message: CreateMLCEngine is under way
WorkerInit ==
  /\ inbox # <<>>
  /\ Head(inbox).type = "init"
  /\ inbox' = Tail(inbox)
  /\ creating' = TRUE
  /\ UNCHANGED <<gens, outbox, engine>>

\* CreateMLCEngine returned: engine = ..., and the 'ready' message
EngineCreated ==
  /\ creating
  /\ creating' = FALSE
  /\ engine' = "loaded"
  /\ outbox' = Append(outbox, Ready)
  /\ UNCHANGED <<inbox, gens>>

\* CreateMLCEngine threw: the catch block's 'error' message
EngineCreationFails(message) ==
  /\ creating
  /\ creating' = FALSE
  /\ outbox' = Append(outbox, Error(message))
  /\ UNCHANGED <<inbox, gens, engine>>

\* the worker takes a 'generate' message without an engine: it throws, and
\* the catch block posts 'error'
WorkerGenerateThrows ==
  /\ inbox # <<>>
  /\ Head(inbox).type = "generate"
  /\ engine = "null"
  /\ inbox' = Tail(inbox)
  /\ outbox' = Append(outbox, Error(EngineNotInitialized))
  /\ UNCHANGED <<gens, engine, creating>>

\* ------------------------------------- onFinish and onError of the caller
\* the callbacks the caller hands to generateWithTools
CallerObservers == {"onUpdate", "onFinish", "onError"}

\* mutant: the loop hands the caller's options on to generate as they are
ForwardedWhole(final) == CallerObservers

\* the callbacks among the options a request hands to generate: inside the
\* loop { temperature, maxTokens, onUpdate }, after it the caller's options
Forwarded(final) == IF final THEN CallerObservers ELSE {"onUpdate"}

\* generate's own onFinish / onError: options.onFinish?.(text) before
\* resolve(text), options.onError?.(error) before reject(error)
Notified(observer, value) ==
  IF observer \in Forwarded(request.final)
    THEN <<[observer |-> observer, value |-> value, request |-> requests]>>
    ELSE <<>>

\* --------------------------------------------------------------- useWebLLM
\* the worker's message after engine.unload()
Unloaded == [type |-> "unloaded", data |-> <<>>]
WorkerNotReady == JsError(<<Word("Worker not ready")>>)

\* the body of the effect: new Worker(...), workerRef.current = worker,
\* setIsLoading(true), worker.postMessage({ type: 'init', modelId }); the
\* new worker's queues are empty and it has no engine
StartWorker ==
  /\ created' = created + 1
  /\ workerRef' = created + 1
  /\ isLoading' = TRUE
  /\ inbox' = <<InitMessage>>
  /\ gens' = <<>>
  /\ outbox' = <<>>
  /\ engine' = "null"
  /\ creating' = FALSE

\* the effect runs after the first render
Mount ==
  /\ workerRef = 0
  /\ StartWorker
  /\ posts' = Append(posts, Post(created + 1, "init"))
  /\ UNCHANGED <<modelId, isReady, errorMessage, currentGenerateOptionsRef,
                 readyWorker, terminated, promise>>

\* a render with another options.modelId: the cleanup of the effect posts
\* 'unload' to the worker and terminates it, then the effect runs again
ChangeModel(m) ==
  /\ workerRef # 0
  /\ m # modelId
  /\ modelId' = m
  /\ terminated' = terminated \cup {workerRef}
  /\ StartWorker
  /\ posts' = posts \o <<Post(workerRef, "unload"), Post(created + 1, "init")>>
  /\ readyWorker' = 0
  /\ UNCHANGED <<isReady, errorMessage, currentGenerateOptionsRef, promise>>

\* mutant: generate looks at workerRef.current only
hookGenerateWithoutIsReady(c) ==
  /\ promise[c].status = "idle"
  /\ IF workerRef = 0
       THEN /\ promise' = [promise EXCEPT ![c] = Rejected(WorkerNotReady)]
            /\ UNCHANGED <<currentGenerateOptionsRef, inbox, posts>>
       ELSE /\ currentGenerateOptionsRef' = c
            /\ promise' = [promise EXCEPT ![c] = Pending]
            /\ inbox' = Append(inbox, GenerateMessage(MessagesOf(c)))
            /\ posts' = Append(posts, Post(workerRef, "generate"))
  /\ UNCHANGED <<modelId, isLoading, isReady, errorMessage, workerRef, readyWorker,
                 created, terminated, gens, outbox, engine, creating>>

\* generate(messages, genOptions) of the latest render, called by caller c
hookGenerate(c) ==
  /\ promise[c].status = "idle"
  /\ IF workerRef = 0 \/ ~isReady
       THEN /\ promise' = [promise EXCEPT ![c] = Rejected(WorkerNotReady)]
            /\ UNCHANGED <<currentGenerateOptionsRef, inbox, posts>>
       ELSE /\ currentGenerateOptionsRef' = c
            /\ promise' = [promise EXCEPT ![c] = Pending]
            /\ inbox' = Append(inbox, GenerateMessage(MessagesOf(c)))
            /\ posts' = Append(posts, Post(workerRef, "generate"))
  /\ UNCHANGED <<modelId, isLoading, isReady, errorMessage, workerRef, readyWorker,
                 created, terminated, gens, outbox, engine, creating>>

\* unload(): workerRef.current?.postMessage({ type: 'unload' })
hookUnload ==
  /\ workerRef # 0
  /\ inbox' = Append(inbox, UnloadMessage)
  /\ posts' = Append(posts, Post(workerRef, "unload"))
  /\ UNCHANGED <<hookVars, created, terminated, gens, outbox, engine, creating,
                 promise>>

\* the listener of the effect, by the type of the message
hookOnMessage ==
  /\ outbox # <<>>
  /\ outbox' = Tail(outbox)
  /\ LET type == Head(outbox).type
         data == Head(outbox).data
         c == currentGenerateOptionsRef
     IN CASE type = "ready" ->
               /\ isReady' = TRUE
               /\ isLoading' = FALSE
               /\ readyWorker' = workerRef
               /\ UNCHANGED <<errorMessage, currentGenerateOptionsRef, promise>>
          [] type = "chunk" ->
               UNCHANGED <<isReady, isLoading, readyWorker, errorMessage,
                           currentGenerateOptionsRef, promise>>
          [] type = "complete" ->
               /\ currentGenerateOptionsRef' = NoCaller
               /\ promise' = IF c # NoCaller /\ promise[c].status = "pending"
                               THEN [promise EXCEPT ![c] = Resolved(data)]
                               ELSE promise
               /\ UNCHANGED <<isReady, isLoading, readyWorker, errorMessage>>
          [] type = "error" ->
               /\ errorMessage' = JsString(data)
               /\ currentGenerateOptionsRef' = NoCaller
               /\ promise' = IF c # NoCaller /\ promise[c].status = "pending"
                               THEN [promise EXCEPT ![c] = Rejected(JsError(data))]
                               ELSE promise
               /\ UNCHANGED <<isReady, isLoading, readyWorker>>
          [] type = "unloaded" ->
               /\ isReady' = FALSE
               /\ readyWorker' = 0
               /\ UNCHANGED <<isLoading, errorMessage, currentGenerateOptionsRef,
                              promise>>
  /\ UNCHANGED <<modelId, workerRef, created, terminated, posts, inbox, gens,
                 engine, creating>>

\* the worker takes an 'unload' message: with an engine, engine.unload(),
\* engine = null and the 'unloaded' message; the engine's streams end
WorkerUnload ==
  /\ inbox # <<>>
  /\ Head(inbox).type = "unload"
  /\ inbox' = Tail(inbox)
  /\ IF engine = "loaded"
       THEN /\ engine' = "null"
            /\ outbox' = Append(outbox, Unloaded)
            /\ gens' = [i \in DOMAIN gens |-> [gens[i] EXCEPT !.stopped = TRUE]]
       ELSE UNCHANGED <<engine, outbox, gens>>
  /\ UNCHANGED creating

\* ----------------------------------------------------------- specification
\* before the first generateWithTools call
InitLoop ==
  /\ notified = <<>>
  /\ pc = "idle"
  /\ messages = <<>>
  /\ options = [maxToolCalls |-> OptUnset]
  /\ toolCallCount = 0
  /\ currentMessages = <<>>
  /\ functionCall = NoCall
  /\ execution = "none"
  /\ request = NoRequest
  /\ outcome = Pending
  /\ requests = 0
  /\ delivered = <<>>
  /\ calls = <<>>
  /\ invoked = <<>>
  /\ settlement = NoSettlement
  /\ events = <<>>

\* before the first registry call of the log and the first direct call
InitRegistry ==
  /\ registrations = <<>>
  /\ direct = NoDirect

\* before the first buildSystemPromptWithTools call
NoPromptCall == [basePrompt |-> <<>>, tools |-> <<>>, returned |-> <<>>]
\* private conversationHistory: ChatCompletionMessageParam[] = []
InitHistory ==
  /\ arrays = << <<>> >>
  /\ conversationHistory = 1
  /\ held = {}
  /\ historyLog = <<>>

\* useWebLLM after the first render, before its effect has run:
\* useState(true), useState(false), useState(null), useRef(null)
Models == {"Llama", "Qwen"}
InitHook ==
  /\ modelId = "Llama"
  /\ isLoading = TRUE
  /\ isReady = FALSE
  /\ errorMessage = JsNull
  /\ workerRef = 0
  /\ currentGenerateOptionsRef = NoCaller
  /\ readyWorker = 0

\* an instance whose initialize() has resolved: the worker holds its engine
InitLoaded ==
  /\ worker = 1
  /\ isLoaded = TRUE
  /\ created = 1
  /\ terminated = {}
  /\ posts = <<Post(1, "init")>>
  /\ initPromise = "resolved"
  /\ callOf = [c \in Callers |-> NoOp]
  /\ microtasks = <<>>
  /\ engine = "loaded"
  /\ creating = FALSE
  /\ sent = <<>>
  /\ served = <<>>

InitRest ==
  /\ promptCall = NoPromptCall
  /\ InitHistory
  /\ InitLoaded
  /\ InitHook

\* the implementation the callers of generateWithTools register
LoopImplementations == {"impl1"}

\* a loaded instance nobody is using: initialize() has resolved, the worker
\* holds its engine and both queues are empty
InitWorker ==
  /\ inbox = <<>>
  /\ gens = <<>>
  /\ outbox = <<>>
  /\ currentGenerateOptions = NoCaller
  /\ promise = [c \in Callers |-> Idle]

Init ==
  /\ tools \in [ToolNames -> LoopImplementations \cup {NoImpl}]
  /\ InitLoop
  /\ InitRegistry
  /\ InitWorker
  /\ InitRest

\* the names the provider's texts ask for
RequestedNames == {parseFunctionCall(t).name : t \in {c \in Completions : parseFunctionCall(c).found}}

\* every outcome an executeTool promise can have
AllOutcomes == ToolOutcomes \cup {Throw(NotRegistered(n)) : n \in RequestedNames}

ProviderSettles ==
  /\ \/ \E text \in Completions, obs \in ObserverOutcomes : OnComplete(text, obs)
     \/ \E text \in Completions : OnCompleteFinal(text)
     \/ \E message \in ProviderErrors : OnError(message)
  /\ UNCHANGED notLoop

ToolSettles ==
  /\ \E o \in AllOutcomes, obs \in ObserverOutcomes : ToolSettled(o, obs)
  /\ UNCHANGED notLoop

Next ==
  \/ \E m \in InputMessages, o \in OptionValues :
       GenerateWithTools(m, o) /\ UNCHANGED notLoop
  \/ \E text \in Completions, obs \in ObserverOutcomes :
       OnComplete(text, obs) /\ UNCHANGED notLoop
  \/ \E o \in AllOutcomes, obs \in ObserverOutcomes :
       ToolSettled(o, obs) /\ UNCHANGED notLoop
  \/ \E text \in Completions :
       OnCompleteFinal(text) /\ UNCHANGED notLoop
  \/ \E message \in ProviderErrors :
       OnError(message) /\ UNCHANGED notLoop
  \/ \E name \in ToolNames, implementation \in LoopImplementations :
       registerTool(name, implementation) /\ UNCHANGED notLoop
  \/ \E name \in ToolNames :
       unregisterTool(name) /\ UNCHANGED notLoop

Spec == Init /\ [][Next]_vars

\* every provider request and every tool execution the call starts settles
FairSpec == Spec /\ WF_vars(ProviderSettles) /\ WF_vars(ToolSettles)

\* the registry on its own: the caller registers, unregisters and executes
RegistryInit ==
  /\ tools = [name \in ToolNames |-> NoImpl]
  /\ InitLoop
  /\ InitRegistry
  /\ InitWorker
  /\ InitRest

RegistryNext ==
  \/ \E name \in ToolNames, implementation \in Implementations :
       /\ Len(registrations) < MaxRegistryOps
       /\ registerTool(name, implementation)
       /\ registrations' =
            Append(registrations, Registration("register", name, implementation))
       /\ UNCHANGED <<direct, workerVars, callerVars, restVars>>
  \/ \E name \in ToolNames :
       /\ Len(registrations) < MaxRegistryOps
       /\ unregisterTool(name)
       /\ registrations' =
            Append(registrations, Registration("unregister", name, NoImpl))
       /\ UNCHANGED <<direct, workerVars, callerVars, restVars>>
  \/ \E name \in ToolNames, parameters \in DirectParameters :
       CallExecuteTool(name, parameters)
  \/ \E o \in ToolOutcomes : DirectSettles(o)

RegistrySpec == RegistryInit /\ [][RegistryNext]_vars

\* parseFunctionCall on its own: one request of generateWithTools answered
\* with each text in turn
ParseInput == <<Msg("user", <<Word("weather?")>>, NoId)>>
ParseOptions == [maxToolCalls |-> OptSet(1)]

ParseInit ==
  /\ tools = [name \in ToolNames |-> IF name = "f" THEN "impl1" ELSE NoImpl]
  /\ InitLoop
  /\ InitRegistry
  /\ InitWorker
  /\ InitRest

ParseNext ==
  \/ GenerateWithTools(ParseInput, ParseOptions) /\ UNCHANGED notLoop
  \/ /\ pc = "awaitGenerate"
     /\ \E text \in ParseTexts : OnComplete(text, Return(JsUndefined))
     /\ UNCHANGED notLoop

ParseSpec == ParseInit /\ [][ParseNext]_vars


\* generateWithTools over the worker: the requests of the loop are 'generate'
\* messages, the worker streams the text of each, and the caller may
\* interrupt.  While a request of the loop is posted, currentGenerateOptions
\* holds the callbacks of that request.
StreamInput == <<Msg("user", <<Word("weather?")>>, NoId)>>
StreamOptions == {[maxToolCalls |-> OptSet(n)] : n \in {1, 2}}
StreamTexts == {TextCallF \o <<Word("Done.")>>, TextPlain}
StreamOutcomes == {Return(JsString(<<Word("sunny")>>)), Throw(JsError(<<Word("boom")>>))}
notStream == <<registryVars, callerVars, restVars>>

\* this.worker!.postMessage of the generate call at the top of the loop
PostsRequest ==
  inbox' = IF request'.posted
             THEN Append(inbox, GenerateMessage(request'.messages))
             ELSE inbox

StreamInit ==
  /\ tools = [name \in ToolNames |-> IF name = "f" THEN "impl1" ELSE NoImpl]
  /\ InitLoop
  /\ InitRegistry
  /\ InitWorker
  /\ InitRest

\* the main thread handles the next message of the worker
StreamOnComplete ==
  /\ outbox # <<>>
  /\ Head(outbox).type = "complete"
  /\ outbox' = Tail(outbox)
  /\ \/ OnComplete(Head(outbox).data, Return(JsUndefined))
     \/ OnCompleteFinal(Head(outbox).data)
  /\ UNCHANGED <<inbox, gens, notStream>>

StreamOnError ==
  /\ outbox # <<>>
  /\ Head(outbox).type = "error"
  /\ outbox' = Tail(outbox)
  /\ OnError(Head(outbox).data)
  /\ UNCHANGED <<inbox, gens, notStream>>

StreamOnChunk == OnChunk /\ UNCHANGED <<tools, loopVars, notStream>>

StreamToolSettles ==
  /\ \E o \in StreamOutcomes : ToolSettled(o, Return(JsUndefined))
  /\ PostsRequest
  /\ UNCHANGED <<gens, outbox, notStream>>

StreamWorkerReceives ==
  /\ \/ \E target \in StreamTexts : WorkerGenerate(target)
     \/ WorkerInterrupt
  /\ UNCHANGED <<tools, loopVars, notStream>>

StreamWorkerChunk ==
  /\ \E i \in DOMAIN gens : WorkerChunk(i)
  /\ UNCHANGED <<tools, loopVars, notStream>>

StreamWorkerComplete ==
  /\ \E i \in DOMAIN gens : WorkerComplete(i)
  /\ UNCHANGED <<tools, loopVars, notStream>>

StreamWorkerFails ==
  /\ \E i \in DOMAIN gens, message \in ProviderErrors : WorkerFails(i, message)
  /\ UNCHANGED <<tools, loopVars, notStream>>

\* the caller interrupts while the call is under way
StreamInterrupt ==
  /\ pc \in Awaiting
  /\ Len(SelectSeq(inbox, LAMBDA m : m.type = "interrupt")) < MaxInterrupts
  /\ interrupt
  /\ UNCHANGED <<tools, loopVars, notStream>>

StreamNext ==
  \/ \E o \in StreamOptions :
       /\ GenerateWithTools(StreamInput, o)
       /\ PostsRequest
       /\ UNCHANGED <<gens, outbox, notStream>>
  \/ StreamInterrupt
  \/ StreamWorkerReceives
  \/ StreamWorkerChunk
  \/ StreamWorkerComplete
  \/ StreamWorkerFails
  \/ StreamOnChunk
  \/ StreamOnComplete
  \/ StreamOnError
  \/ StreamToolSettles

StreamSpec == StreamInit /\ [][StreamNext]_vars

\* the worker and the main thread handle their messages, streams go on until
\* they end, tool executions settle
FairStreamSpec ==
  /\ StreamSpec
  /\ WF_vars(StreamWorkerReceives)
  /\ WF_vars(StreamWorkerChunk)
  /\ WF_vars(StreamWorkerComplete)
  /\ WF_vars(StreamOnChunk)
  /\ WF_vars(StreamOnComplete)
  /\ WF_vars(StreamOnError)
  /\ WF_vars(StreamToolSettles)

\* two callers of generate on one loaded instance
CoreInit ==
  /\ tools = [name \in ToolNames |-> NoImpl]
  /\ InitLoop
  /\ InitRegistry
  /\ InitWorker
  /\ InitRest

notCore == <<tools, loopVars, registryVars, restVars>>

CoreNext ==
  \/ \E c \in Callers : Generate(c) /\ UNCHANGED notCore
  \/ /\ inbox # <<>>
     /\ WorkerGenerate(AnswerTo(Head(inbox).messages))
     /\ UNCHANGED <<callerVars, notCore>>
  \/ \E i \in DOMAIN gens : WorkerChunk(i) /\ UNCHANGED <<callerVars, notCore>>
  \/ \E i \in DOMAIN gens : WorkerComplete(i) /\ UNCHANGED <<callerVars, notCore>>
  \/ \E i \in DOMAIN gens, message \in ProviderErrors :
       WorkerFails(i, message) /\ UNCHANGED <<callerVars, notCore>>
  \/ OnChunk /\ UNCHANGED <<callerVars, notCore>>
  \/ OnCompleteMessage /\ UNCHANGED notCore
  \/ OnErrorMessage /\ UNCHANGED notCore

CoreSpec == CoreInit /\ [][CoreNext]_vars


\* buildSystemPromptWithTools on its own: the caller builds the prompt of one
\* base prompt and one tool list, more than once
PromptInit ==
  /\ tools = [name \in ToolNames |-> NoImpl]
  /\ InitLoop
  /\ InitRegistry
  /\ InitWorker
  /\ InitHistory
  /\ InitLoaded
  /\ InitHook
  /\ promptCall \in { [basePrompt |-> b, tools |-> ts, returned |-> <<>>] :
                        b \in BasePrompts, ts \in ToolLists }

CallBuildSystemPrompt ==
  /\ Len(promptCall.returned) < 2
  /\ promptCall' =
       [promptCall EXCEPT !.returned =
          Append(@, buildSystemPromptWithTools(promptCall.basePrompt, promptCall.tools))]
  /\ UNCHANGED <<tools, loopVars, registryVars, workerVars, callerVars, historyVars,
                 instanceVars, hookVars, notified>>

PromptNext == CallBuildSystemPrompt

PromptSpec == PromptInit /\ [][PromptNext]_vars

\* the conversation history on its own: the caller builds arrays, hands them
\* to setHistory, asks for the history, resets it, and goes on changing the
\* arrays it holds
notHistory == <<tools, loopVars, registryVars, workerVars, callerVars, promptCall,
                instanceVars, hookVars, notified>>

HistoryInit ==
  /\ tools = [name \in ToolNames |-> NoImpl]
  /\ InitLoop
  /\ InitRegistry
  /\ InitWorker
  /\ promptCall = NoPromptCall
  /\ InitLoaded
  /\ InitHook
  /\ arrays = << <<>>, <<>> >>
  /\ conversationHistory = 1
  /\ held = {2}
  /\ historyLog = <<>>

HistoryNext ==
  \/ Len(arrays) < MaxArrays /\ reset /\ UNCHANGED notHistory
  \/ Len(arrays) < MaxArrays /\ getHistory /\ UNCHANGED notHistory
  \/ \E history \in held :
       Len(arrays) < MaxArrays /\ setHistory(history) /\ UNCHANGED notHistory
  \/ \E array \in held, message \in CallerMessages :
       CallerPushes(array, message) /\ UNCHANGED notHistory
  \/ \E array \in held : CallerPops(array) /\ UNCHANGED notHistory

HistorySpec == HistoryInit /\ [][HistoryNext]_vars

\* generateWithTools next to the other users of the instance: while calls
\* of the loop come and go, the caller registers and unregisters tools and
\* sets and resets the conversation history
FrameOptions == {[maxToolCalls |-> OptSet(n)] : n \in {0, 1}}
FrameTexts == {TextPlain, TextCallF}

FrameInit ==
  /\ tools \in [ToolNames -> LoopImplementations \cup {NoImpl}]
  /\ InitLoop
  /\ InitRegistry
  /\ InitWorker
  /\ promptCall = NoPromptCall
  /\ InitLoaded
  /\ InitHook
  /\ arrays = << <<>>, <<Msg("user", <<Word("hello")>>, NoId)>> >>
  /\ conversationHistory = 1
  /\ held = {2}
  /\ historyLog = <<>>

FrameNext ==
  \/ \E m \in InputMessages, o \in FrameOptions :
       GenerateWithTools(m, o) /\ UNCHANGED notLoop
  \/ \E text \in FrameTexts, obs \in ObserverOutcomes :
       OnComplete(text, obs) /\ UNCHANGED notLoop
  \/ \E o \in AllOutcomes, obs \in ObserverOutcomes :
       ToolSettled(o, obs) /\ UNCHANGED notLoop
  \/ \E text \in FrameTexts :
       OnCompleteFinal(text) /\ UNCHANGED notLoop
  \/ \E message \in ProviderErrors :
       OnError(message) /\ UNCHANGED notLoop
  \/ \E name \in ToolNames, implementation \in LoopImplementations :
       registerTool(name, implementation) /\ UNCHANGED notLoop
  \/ \E name \in ToolNames :
       unregisterTool(name) /\ UNCHANGED notLoop
  \/ \E history \in held :
       Len(arrays) < MaxArrays /\ setHistory(history) /\ UNCHANGED notHistory
  \/ Len(arrays) < MaxArrays /\ reset /\ UNCHANGED notHistory

FrameSpec == FrameInit /\ [][FrameNext]_vars

\* the instance from its construction: callers initialize, generate, chat
\* and unload; the worker loads its engine and answers
notInstance == <<tools, loopVars, registryVars, promptCall, sent, served, hookVars,
                 notified>>
\* what the worker does not touch
notWorker == <<worker, isLoaded, created, terminated, posts, initPromise, callOf,
               microtasks, currentGenerateOptions, promise, historyVars, notInstance>>

InstanceInit ==
  /\ tools = [name \in ToolNames |-> NoImpl]
  /\ InitLoop
  /\ InitRegistry
  /\ InitWorker
  /\ promptCall = NoPromptCall
  /\ arrays = << <<Msg("system", <<Word("Be brief.")>>, NoId)>> >>
  /\ conversationHistory = 1
  /\ held = {}
  /\ historyLog = <<>>
  /\ worker = 0
  /\ isLoaded = FALSE
  /\ created = 0
  /\ terminated = {}
  /\ posts = <<>>
  /\ initPromise = "none"
  /\ callOf = [c \in Callers |-> NoOp]
  /\ microtasks = <<>>
  /\ engine = "null"
  /\ creating = FALSE
  /\ sent = <<>>
  /\ served = <<>>
  /\ InitHook

InstanceNext ==
  \/ \E c \in Callers : initialize(c) /\ UNCHANGED notInstance
  \/ \E c \in Callers : generate(c) /\ UNCHANGED notInstance
  \/ \E c \in Callers : chat(c) /\ UNCHANGED notInstance
  \/ Cardinality(terminated) < MaxUnloads /\ unload /\ UNCHANGED notInstance
  \/ RunMicrotask /\ UNCHANGED notInstance
  \/ HandleReady /\ UNCHANGED notInstance
  \/ HandleChunk /\ UNCHANGED notInstance
  \/ HandleComplete /\ UNCHANGED notInstance
  \/ HandleError /\ UNCHANGED notInstance
  \/ WorkerInit /\ UNCHANGED notWorker
  \/ EngineCreated /\ UNCHANGED notWorker
  \/ \E message \in LoadErrors : EngineCreationFails(message) /\ UNCHANGED notWorker
  \/ /\ inbox # <<>>
     /\ engine = "loaded"
     /\ WorkerGenerate(ReplyTo(Head(inbox).messages))
     /\ UNCHANGED <<engine, creating, notWorker>>
  \/ WorkerGenerateThrows /\ UNCHANGED notWorker
  \/ \E i \in DOMAIN gens : WorkerChunk(i) /\ UNCHANGED <<engine, creating, notWorker>>
  \/ \E i \in DOMAIN gens : WorkerComplete(i) /\ UNCHANGED <<engine, creating, notWorker>>
  \/ \E i \in DOMAIN gens, message \in ProviderErrors :
       WorkerFails(i, message) /\ UNCHANGED <<engine, creating, notWorker>>

InstanceSpec == InstanceInit /\ [][InstanceNext]_vars

\* what goes on without the caller: continuations, the handlers of the
\* worker's messages, and the worker itself
InstanceSteps ==
  /\ InstanceNext
  /\ terminated' = terminated
  /\ \A c \in Callers : callOf[c].op = "none" => callOf'[c].op = "none"

\* continuations and delivered messages are run, and the worker answers
\* what it has received while it is alive
FairInstanceSpec == InstanceSpec /\ WF_vars(InstanceSteps)

\* the instance with a caller that also resets the conversation
ResetNext ==
  \/ InstanceNext
  \/ Len(historyLog) < MaxResets /\ reset /\ UNCHANGED notHistory

ResetSpec == InstanceInit /\ [][ResetNext]_vars

\* the worker on its own, created and sent 'init': the main thread posts
\* 'generate' and 'interrupt' messages at any time, and what the worker posts is recorded
\* with the 'generate' message it answers
WorkerTexts == {<<>>, <<Word("It is"), Word("sunny.")>>}
notPosting == <<tools, loopVars, registryVars, callerVars, promptCall, historyVars,
                worker, isLoaded, created, terminated, initPromise, callOf,
                microtasks, hookVars, notified>>

WorkerAlone ==
  /\ tools = [name \in ToolNames |-> NoImpl]
  /\ InitLoop
  /\ InitRegistry
  /\ inbox = <<InitMessage>>
  /\ gens = <<>>
  /\ outbox = <<>>
  /\ currentGenerateOptions = NoCaller
  /\ promise = [c \in Callers |-> Idle]
  /\ promptCall = NoPromptCall
  /\ InitHistory
  /\ worker = 1
  /\ isLoaded = FALSE
  /\ created = 1
  /\ terminated = {}
  /\ posts = <<Post(1, "init")>>
  /\ initPromise = "pending"
  /\ callOf = [c \in Callers |-> NoOp]
  /\ microtasks = <<>>
  /\ engine = "null"
  /\ creating = FALSE
  /\ sent = <<>>
  /\ served = <<>>
  /\ InitHook

Posted(type) == Len(SelectSeq(posts, LAMBDA post : post.type = type))

\* worker.postMessage(message)
PostMessage(message) ==
  /\ inbox' = Append(inbox, message)
  /\ posts' = Append(posts, Post(worker, message.type))
  /\ UNCHANGED <<gens, outbox, engine, creating, sent, served>>

\* self.postMessage for the request of stream i
PostedFor(i) == sent' = [sent EXCEPT ![served[i]] = Append(@, Last(outbox'))]

WorkerSteps ==
  \/ WorkerInit /\ UNCHANGED <<sent, served>>
  \/ EngineCreated /\ UNCHANGED <<sent, served>>
  \/ \E message \in LoadErrors : EngineCreationFails(message) /\ UNCHANGED <<sent, served>>
  \/ \E target \in WorkerTexts :
       /\ engine = "loaded"
       /\ WorkerGenerate(target)
       /\ sent' = Append(sent, <<>>)
       /\ served' = Append(served, Len(sent) + 1)
       /\ UNCHANGED <<engine, creating>>
  \/ /\ WorkerGenerateThrows
     /\ sent' = Append(sent, <<Last(outbox')>>)
     /\ UNCHANGED served
  \/ WorkerInterrupt /\ UNCHANGED <<engine, creating, sent, served>>
  \/ \E i \in DOMAIN gens :
       WorkerChunk(i) /\ PostedFor(i) /\ UNCHANGED <<engine, creating, served>>
  \/ \E i \in DOMAIN gens :
       /\ WorkerComplete(i)
       /\ PostedFor(i)
       /\ served' = Without(served, i)
       /\ UNCHANGED <<engine, creating>>
  \/ \E i \in DOMAIN gens, message \in ProviderErrors :
       /\ WorkerFails(i, message)
       /\ PostedFor(i)
       /\ served' = Without(served, i)
       /\ UNCHANGED <<engine, creating>>

WorkerNext ==
  \/ /\ Posted("generate") < MaxRequests
     /\ PostMessage(GenerateMessage(MessagesOf("first")))
     /\ UNCHANGED notPosting
  \/ Posted("interrupt") < MaxInterrupts /\ PostMessage(InterruptMessage) /\ UNCHANGED notPosting
  \/ WorkerSteps /\ UNCHANGED <<posts, notPosting>>

WorkerSpec == WorkerAlone /\ [][WorkerNext]_vars

\* the worker's event loop takes every message, and a stream of the engine
\* ends
FairWorkerSpec == WorkerSpec /\ WF_vars(WorkerSteps /\ UNCHANGED <<posts, notPosting>>)

\* the hook: the component is mounted, its callers call generate and unload,
\* options.modelId changes, and the worker loads, answers and unloads
notHook == <<tools, loopVars, registryVars, currentGenerateOptions, promptCall,
             historyVars, worker, isLoaded, initPromise, callOf, microtasks, sent,
             served, notified>>
\* what the worker does not touch
hookMain == <<hookVars, created, terminated, posts, promise>>

HookInit ==
  /\ tools = [name \in ToolNames |-> NoImpl]
  /\ InitLoop
  /\ InitRegistry
  /\ InitWorker
  /\ promptCall = NoPromptCall
  /\ InitHistory
  /\ worker = 0
  /\ isLoaded = FALSE
  /\ created = 0
  /\ terminated = {}
  /\ posts = <<>>
  /\ initPromise = "none"
  /\ callOf = [c \in Callers |-> NoOp]
  /\ microtasks = <<>>
  /\ engine = "null"
  /\ creating = FALSE
  /\ sent = <<>>
  /\ served = <<>>
  /\ InitHook

HookNext ==
  \/ Mount /\ UNCHANGED notHook
  \/ \E m \in Models :
       /\ Cardinality(terminated) < MaxModelChanges
       /\ ChangeModel(m)
       /\ UNCHANGED notHook
  \/ \E c \in Callers : hookGenerate(c) /\ UNCHANGED notHook
  \/ Posted("unload") < MaxUnloads /\ hookUnload /\ UNCHANGED notHook
  \/ hookOnMessage /\ UNCHANGED notHook
  \/ WorkerInit /\ UNCHANGED <<hookMain, notHook>>
  \/ EngineCreated /\ UNCHANGED <<hookMain, notHook>>
  \/ \E message \in LoadErrors :
       EngineCreationFails(message) /\ UNCHANGED <<hookMain, notHook>>
  \/ /\ inbox # <<>>
     /\ engine = "loaded"
     /\ WorkerGenerate(ReplyTo(Head(inbox).messages))
     /\ UNCHANGED <<engine, creating, hookMain, notHook>>
  \/ WorkerGenerateThrows /\ UNCHANGED <<hookMain, notHook>>
  \/ WorkerUnload /\ UNCHANGED <<hookMain, notHook>>
  \/ \E i \in DOMAIN gens :
       WorkerChunk(i) /\ UNCHANGED <<engine, creating, hookMain, notHook>>
  \/ \E i \in DOMAIN gens :
       WorkerComplete(i) /\ UNCHANGED <<engine, creating, hookMain, notHook>>
  \/ \E i \in DOMAIN gens, message \in ProviderErrors :
       WorkerFails(i, message) /\ UNCHANGED <<engine, creating, hookMain, notHook>>

HookSpec == HookInit /\ [][HookNext]_vars

\* the loop with the option left out, and with a bound that admits no
\* iteration: the provider answers with or without a call, the tool returns
\* or throws
DefaultOptions == {[maxToolCalls |-> v] : v \in {OptUnset, OptSet(0), OptSet(-1)}}
DefaultTexts == {TextPlain, TextCallF}
DefaultOutcomes == {Return(JsString(<<Word("sunny")>>)), Throw(JsError(<<Word("boom")>>))}

DefaultInit ==
  /\ tools = [name \in ToolNames |-> "impl1"]
  /\ InitLoop
  /\ InitRegistry
  /\ InitWorker
  /\ InitRest

DefaultNext ==
  \/ \E m \in InputMessages, o \in DefaultOptions :
       GenerateWithTools(m, o) /\ UNCHANGED notLoop
  \/ \E text \in DefaultTexts :
       OnComplete(text, Return(JsUndefined)) /\ UNCHANGED notLoop
  \/ \E o \in DefaultOutcomes :
       ToolSettled(o, Return(JsUndefined)) /\ UNCHANGED notLoop
  \/ \E text \in DefaultTexts :
       OnCompleteFinal(text) /\ UNCHANGED notLoop
  \/ \E message \in ProviderErrors :
       OnError(message) /\ UNCHANGED notLoop

DefaultSpec == DefaultInit /\ [][DefaultNext]_vars

\* the loop with tools of every kind of result
ResultOptions == {[maxToolCalls |-> OptSet(n)] : n \in {1, 2}}

ResultNext ==
  \/ \E m \in InputMessages, o \in ResultOptions :
       GenerateWithTools(m, o) /\ UNCHANGED notLoop
  \/ \E text \in DefaultTexts :
       OnComplete(text, Return(JsUndefined)) /\ UNCHANGED notLoop
  \/ \E o \in ImplementationOutcomes, obs \in ObserverOutcomes :
       ToolSettled(o, obs) /\ UNCHANGED notLoop
  \/ \E text \in DefaultTexts :
       OnCompleteFinal(text) /\ UNCHANGED notLoop
  \/ \E message \in ProviderErrors :
       OnError(message) /\ UNCHANGED notLoop

ResultSpec == DefaultInit /\ [][ResultNext]_vars

\* the loop with a caller that supplies onFinish and onError
notObserved == <<registryVars, workerVars, callerVars, promptCall, historyVars,
                 instanceVars, hookVars>>

ObserverNext ==
  \/ \E m \in InputMessages, o \in OptionValues :
       GenerateWithTools(m, o) /\ notified' = <<>> /\ UNCHANGED notObserved
  \/ \E text \in DefaultTexts, obs \in ObserverOutcomes :
       /\ OnComplete(text, obs)
       /\ notified' = notified \o Notified("onFinish", text)
       /\ UNCHANGED notObserved
  \/ \E o \in DefaultOutcomes, obs \in ObserverOutcomes :
       ToolSettled(o, obs) /\ UNCHANGED <<notified, notObserved>>
  \/ \E text \in DefaultTexts :
       /\ OnCompleteFinal(text)
       /\ notified' = notified \o Notified("onFinish", text)
       /\ UNCHANGED notObserved
  \/ \E message \in ProviderErrors :
       /\ OnError(message)
       /\ notified' = notified \o Notified("onError", message)
       /\ UNCHANGED notObserved

ObserverSpec == DefaultInit /\ [][ObserverNext]_vars

\* ------------------------------------------------------------------ claims
\* maxToolCalls of the invocation
N == MaxToolCalls(options)

\* the messages the invocation has appended to its copy
Appended == SubSeq(currentMessages, Len(messages) + 1, Len(currentMessages))
IsTool(m) == m.role = "tool"
AppendedTools == SelectSeq(Appended, IsTool)


\* the step handles one more answer of the worker, of this type
Delivers(type) ==
  /\ Len(delivered') = Len(delivered) + 1
  /\ Last(delivered').type = type

\* the invocation was rejected with the failure of a provider request
ProviderFailed ==
  /\ pc = "rejected"
  /\ delivered # <<>>
  /\ Last(delivered).type = "error"

\* the decimal form of the positive numbers
DecimalIds == <<"1", "2", "3", "4", "5", "6">>

\* C1: with maxToolCalls = N >= 0, an invocation makes at most N+1 provider
\* requests and at most N tool dispatches, and an invocation whose requests
\* and tool executions all settle settles itself.
C1_Bounds == (pc # "idle" /\ N >= 0) => (requests <= N + 1 /\ Len(calls) <= N)
C1_BoundedAndTerminates == [] C1_Bounds /\ ((pc \in Awaiting) ~> (pc \in Settled))
C1_Witness ==
  /\ pc = "resolved"
  /\ N >= 2
  /\ requests = N + 1
  /\ Len(calls) = N

\* C2: when every completion of the provider carries a call, the invocation
\* makes exactly N dispatches and N+1 requests and returns the text of the
\* (N+1)-th request verbatim.
C2_AlwaysCallsRunsToBound ==
  ( /\ pc \in Settled
    /\ N >= 0
    /\ \A i \in DOMAIN delivered :
         delivered[i].type = "complete" /\ parseFunctionCall(delivered[i].data).found )
  => ( /\ pc = "resolved"
       /\ Len(calls) = N
       /\ requests = N + 1
       /\ Len(delivered) = N + 1
       /\ outcome = Resolved(delivered[N + 1].data) )

\* C3: a completion of the loop without a parseable call is returned at once:
\* no further request, no tool execution, no message appended.
C3_NoCallReturnsAtOnce ==
  [][ ( /\ pc = "awaitGenerate"
        /\ Delivers("complete")
        /\ ~parseFunctionCall(Last(delivered').data).found )
      => ( /\ pc' = "resolved"
           /\ outcome' = Resolved(Last(delivered').data)
           /\ ~request'.posted
           /\ requests' = requests
           /\ calls' = calls
           /\ invoked' = invoked
           /\ execution' = "none"
           /\ currentMessages' = currentMessages ) ]_vars
C3_Witness ==
  /\ pc = "resolved"
  /\ toolCallCount >= 1
  /\ requests = toolCallCount + 1
  /\ toolCallCount < N
  /\ Last(delivered).data = TextBadBody
  /\ Len(Appended) = 2 * toolCallCount

\* C4: every appended tool message directly follows an appended assistant
\* message holding the raw completion a call was parsed from.
C4_ToolFollowsAssistant ==
  /\ SubSeq(currentMessages, 1, Len(messages)) = messages
  /\ \A i \in DOMAIN Appended :
       Appended[i].role = "tool" =>
         /\ i > 1
         /\ Appended[i - 1].role = "assistant"
         /\ Appended[i - 1].tool_call_id = NoId
         /\ parseFunctionCall(Appended[i - 1].content).found
         /\ \E j \in DOMAIN delivered : delivered[j] = Complete(Appended[i - 1].content)
C4_Witness ==
  /\ Len(AppendedTools) >= 2
  /\ \E i \in DOMAIN messages : messages[i].role = "tool"
  /\ Appended[1].content # Appended[3].content

\* C5: the i-th appended tool message has tool_call_id "i", which is the
\* number of calls issued so far, for a result and for a failure alike, in
\* every invocation.
C5_IdsCountCalls ==
  /\ \A i \in DOMAIN AppendedTools : AppendedTools[i].tool_call_id = DecimalIds[i]
  /\ Len(AppendedTools) <= toolCallCount
  /\ pc \in {"awaitGenerate", "awaitFinal", "resolved"} =>
       Len(AppendedTools) = toolCallCount
C5_Witness ==
  /\ Len(AppendedTools) >= 2
  /\ AppendedTools[1].content[1] = Word("Error: ")
  /\ AppendedTools[2].content = <<Word("sunny")>>
  /\ \E i \in DOMAIN messages : messages[i].tool_call_id = "7"

RECURSIVE InvocationsOf(_)
InvocationsOf(cs) ==
  IF cs = <<>> THEN <<>>
  ELSE (IF Head(cs).registered
          THEN <<[name |-> Head(cs).name, impl |-> Head(cs).impl,
                  parameters |-> Head(cs).parameters]>>
          ELSE <<>>) \o InvocationsOf(Tail(cs))

\* C7: a parsed call leads to at most one invocation of an implementation,
\* with the parsed name and parameters; the invocations are those of the
\* calls whose name was registered when they were dispatched.
C7_OneInvocationPerCall ==
  /\ Len(calls) <= toolCallCount
  /\ toolCallCount <= Len(delivered)
  /\ \A k \in DOMAIN calls :
       LET parsed == parseFunctionCall(delivered[k].data)
       IN /\ delivered[k].type = "complete"
          /\ Appended[2 * k - 1].content = delivered[k].data
          /\ calls[k].name = parsed.name
          /\ calls[k].parameters = parsed.parameters
  /\ invoked = InvocationsOf(calls)
C7_Witness ==
  /\ Len(calls) = 2
  /\ Len(invoked) = 1
  /\ calls[1].name = "f"
  /\ ~calls[1].registered
  /\ calls[2].registered
  /\ invoked[1].parameters = "{a:1}"

\* C8: a call of a name that is not registered does not reject the invocation:
\* a tool message describing the 'not registered' failure, with the current
\* id, is appended and the next request is issued.
C8_UnregisteredAbsorbed ==
  [][ (pc = "awaitTool" /\ execution = "notRegistered" /\ pc' # "awaitTool")
      => ( /\ pc' \in {"awaitGenerate", "awaitFinal"}
           /\ request'.posted
           /\ request'.messages = currentMessages'
           /\ requests' = requests + 1
           /\ outcome' = Pending
           /\ Len(currentMessages') = Len(currentMessages) + 1
           /\ SubSeq(currentMessages', 1, Len(currentMessages)) = currentMessages
           /\ Last(currentMessages').role = "tool"
           /\ Last(currentMessages').tool_call_id = DecimalIds[toolCallCount]
           /\ Last(currentMessages').content =
                <<Word("Error: "), Word("Tool '"), Word(functionCall.name),
                  Word("' is not registered")>> ) ]_vars
C8_Witness ==
  /\ pc = "awaitGenerate"
  /\ toolCallCount = 1
  /\ calls[1].name = UndefinedName
  /\ Last(currentMessages).content[4] = Word("' is not registered")

\* the content carries the wording of the thrown value
Describes(content, thrown) ==
  /\ thrown.s # <<>>
  /\ \E i \in DOMAIN content : SubSeq(content, i, Len(content)) = thrown.s

\* C9: a failing registered implementation, whatever it throws, does not
\* reject the invocation: one tool message describing the error, with the
\* current id, is appended and the next request is issued.
C9_ToolFailureAbsorbed ==
  [][ ( /\ pc = "awaitTool"
        /\ execution = "running"
        /\ pc' # "awaitTool"
        /\ settlement'.kind = "throw" )
      => ( /\ pc' \in {"awaitGenerate", "awaitFinal"}
           /\ request'.posted
           /\ outcome' = Pending
           /\ Len(currentMessages') = Len(currentMessages) + 1
           /\ Last(currentMessages').role = "tool"
           /\ Last(currentMessages').tool_call_id = DecimalIds[toolCallCount]
           /\ Describes(Last(currentMessages').content, settlement'.value) ) ]_vars

\* C10: a failing provider request rejects the invocation with that failure,
\* and afterwards the invocation makes no request and executes no tool.
C10_ProviderFailureRejects ==
  [][ /\ ( (pc \in {"awaitGenerate", "awaitFinal"} /\ Delivers("error"))
           => ( /\ pc' = "rejected"
                /\ outcome' = Rejected(JsError(Last(delivered').data))
                /\ ~request'.posted
                /\ execution' = "none"
                /\ requests' = requests
                /\ calls' = calls
                /\ invoked' = invoked ) )
      /\ ( (ProviderFailed /\ pc' = "rejected")
           => ( /\ outcome' = outcome
                /\ request' = request
                /\ requests' = requests
                /\ calls' = calls
                /\ invoked' = invoked ) ) ]_vars
C10_Witness ==
  /\ ProviderFailed
  /\ N >= 1
  /\ requests = N + 1
  /\ Len(invoked) >= 1
  /\ outcome.value = JsError(<<Word("engine failure")>>)

\* the input followed by k (assistant, tool) pairs, in call order
InputThenPairs(msgs, k) ==
  /\ Len(msgs) = Len(messages) + 2 * k
  /\ SubSeq(msgs, 1, Len(messages)) = messages
  /\ \A i \in 1..k :
       /\ msgs[Len(messages) + 2 * i - 1] = Msg("assistant", delivered[i].data, NoId)
       /\ msgs[Len(messages) + 2 * i].role = "tool"
       /\ msgs[Len(messages) + 2 * i].tool_call_id = DecimalIds[i]

\* C11: the request issued after k tool calls carries the input messages
\* followed by exactly the k (assistant, tool) pairs in call order; messages
\* already in the sequence are never changed, moved or removed, and the final
\* answer is not appended.
C11_RequestsCarryInputAndPairs ==
  /\ [] ( /\ request.posted =>
               /\ requests = toolCallCount + 1
               /\ request.messages = currentMessages
               /\ InputThenPairs(request.messages, toolCallCount)
          /\ pc = "resolved" => InputThenPairs(currentMessages, toolCallCount) )
  /\ [][ (pc \in Awaiting) =>
           ( /\ messages' = messages
             /\ Len(currentMessages') >= Len(currentMessages)
             /\ SubSeq(currentMessages', 1, Len(currentMessages)) = currentMessages ) ]_vars
C11_Witness ==
  /\ pc = "awaitFinal"
  /\ request.posted
  /\ toolCallCount = 2
  /\ Len(request.messages) = 7
  /\ request.messages[2].tool_call_id = "7"
  /\ request.messages[5].content[1] = Word("Error: ")

\* C13: an invocation has at most one provider request or tool execution
\* outstanding; a tool is dispatched only in the step that delivers the full
\* text of the outstanding request, and the next request is issued only in
\* the step in which the tool execution settles.
C13_OneAtATime ==
  /\ [] ( /\ ~(request.posted /\ execution # "none")
          /\ request.posted <=> pc \in {"awaitGenerate", "awaitFinal"}
          /\ execution # "none" <=> pc = "awaitTool" )
  /\ [][ ( /\ (execution = "none" /\ execution' # "none") =>
                /\ request.posted
                /\ Delivers("complete")
                /\ ~request'.posted
                /\ requests' = requests
           /\ (requests' = requests + 1 /\ requests >= 1) =>
                /\ pc = "awaitTool"
                /\ execution # "none"
                /\ execution' = "none"
                /\ settlement'.kind # "none"
                /\ Last(calls').outcome = settlement' ) ]_vars
C13_Witness ==
  /\ pc = "awaitTool"
  /\ execution = "running"
  /\ toolCallCount = 2
  /\ requests = 2
  /\ ~request.posted

IsToolCallEvent(e) == e.observer = "onToolCall"
IsToolResultEvent(e) == e.observer = "onToolResult"
Returned(e) == ~e.threw
ToolCallsSeen == SelectSeq(events, IsToolCallEvent)
ToolResultsSeen == SelectSeq(events, IsToolResultEvent)

\* C14: onToolCall is invoked once per parsed call, with the parsed name and
\* parameters, after the counter was incremented and before the tool is
\* executed (a call is executed only once the observer has returned);
\* onToolResult is invoked once, with the result, exactly when the execution
\* of a registered tool returned.
C14_ObserversOncePerCall ==
  /\ [] ( /\ Len(ToolCallsSeen) = toolCallCount
          /\ toolCallCount <= Len(delivered)
          /\ \A k \in DOMAIN ToolCallsSeen :
               LET parsed == parseFunctionCall(delivered[k].data)
               IN /\ parsed.found
                  /\ ToolCallsSeen[k].name = parsed.name
                  /\ ToolCallsSeen[k].parameters = parsed.parameters
                  /\ ToolCallsSeen[k].count = k
          /\ Len(calls) = Len(SelectSeq(ToolCallsSeen, Returned)) )
  /\ [][ ( /\ (pc = "awaitTool" /\ pc' # "awaitTool") =>
                IF execution = "running" /\ settlement'.kind = "return"
                  THEN /\ Len(events') = Len(events) + 1
                       /\ SubSeq(events', 1, Len(events)) = events
                       /\ Last(events').observer = "onToolResult"
                       /\ Last(events').name = functionCall.name
                       /\ Last(events').result = settlement'.value
                  ELSE events' = events
           /\ (pc # "awaitTool" /\ Len(events') >= Len(events)) =>
                ToolResultsSeen' = ToolResultsSeen ) ]_vars
C14_Witness ==
  /\ Len(ToolCallsSeen) = 2
  /\ Len(ToolResultsSeen) = 1
  /\ ~calls[1].registered
  /\ calls[2].outcome = Return(JsString(<<Word("sunny")>>))
  /\ ToolResultsSeen[1].result = JsString(<<Word("sunny")>>)
  /\ ToolResultsSeen[1].name = "g"
  /\ ToolCallsSeen[2].parameters = "{b:2}"

\* every name the invocation asked for was registered, and no implementation
\* threw
ToolsBehaved ==
  \A k \in DOMAIN calls : calls[k].registered /\ calls[k].outcome.kind # "throw"
NoObserverThrew == \A i \in DOMAIN events : ~events[i].threw

RECURSIVE LatestIn(_, _)
LatestIn(log, name) ==
  IF log = <<>> THEN NoImpl
  ELSE IF Last(log).name = name
         THEN (IF Last(log).op = "register" THEN Last(log).impl ELSE NoImpl)
         ELSE LatestIn(SubSeq(log, 1, Len(log) - 1), name)

\* C17: after any sequence of registerTool and unregisterTool calls,
\* executeTool(name, p) invokes exactly the implementation registered last
\* under name, once and with p, and settles as that implementation does; for
\* a name without a registration it rejects with the 'not registered' error
\* and invokes nothing.
C17_ExecutesLatestRegistration ==
  direct.status # "none" =>
    LET latest == LatestIn(SubSeq(registrations, 1, direct.at), direct.name)
    IN IF latest # NoImpl
         THEN /\ direct.invocations =
                   <<[name |-> direct.name, impl |-> latest,
                      parameters |-> direct.parameters]>>
              /\ direct.status = "running" <=> direct.implementation = NoSettlement
              /\ direct.result = direct.implementation
              /\ direct.status = "resolved" <=> direct.implementation.kind = "return"
              /\ direct.status = "rejected" <=> direct.implementation.kind = "throw"
         ELSE /\ direct.invocations = <<>>
              /\ direct.status = "rejected"
              /\ direct.result = Throw(NotRegistered(direct.name))
C17_Witness ==
  /\ direct.status = "resolved"
  /\ direct.at = 2
  /\ registrations[1] = Registration("register", "f", "impl1")
  /\ registrations[2] = Registration("register", "f", "impl2")
  /\ Len(registrations) = 3
  /\ registrations[3] = Registration("unregister", "f", NoImpl)
  /\ direct.invocations[1].impl = "impl2"
  /\ direct.result = Return(JsObject(<<Obj(Absent, Absent, Absent)>>))

\* the <open>...</close> spans of a text whose inside holds no closing tag
Envelopes(text, open, close) ==
  { e \in (DOMAIN text) \X (DOMAIN text) :
      /\ e[1] < e[2]
      /\ text[e[1]].k = open
      /\ text[e[2]].k = close
      /\ \A j \in (e[1] + 1)..(e[2] - 1) : text[j].k # close }
\* the span that starts first
FirstEnvelope(text, open, close) ==
  CHOOSE e \in Envelopes(text, open, close) :
    \A other \in Envelopes(text, open, close) : e[1] <= other[1]
Inside(text, e) == SubSeq(text, e[1] + 1, e[2] - 1)

\* the text parseFunctionCall was applied to last, and what it returned
Parsing == pc \in {"awaitTool", "resolved", "rejected"} /\ Len(delivered) = 1
ParsedText == delivered[1].data
Parsed == IF pc = "awaitTool" THEN functionCall ELSE NoCall

\* C18: the result comes from the first <function> envelope of the text when
\* there is one, wherever the <tool_call> envelopes are; from the first
\* <tool_call> envelope when there is no <function> envelope.
C18_FunctionEnvelopeFirst ==
  Parsing =>
    /\ pc # "rejected"
    /\ IF Envelopes(ParsedText, "fopen", "fclose") # {}
         THEN Parsed = ParseBody(Inside(ParsedText, FirstEnvelope(ParsedText, "fopen", "fclose")))
       ELSE IF Envelopes(ParsedText, "topen", "tclose") # {}
         THEN Parsed = ParseBody(Inside(ParsedText, FirstEnvelope(ParsedText, "topen", "tclose")))
       ELSE Parsed = NoCall
C18_Witness ==
  /\ Parsing
  /\ ParsedText = EnvelopeG \o EnvelopeF \o <<Obj("g", Absent, "{b:2}")>>
  /\ Parsed = Call("f", "{a:1}")

\* the JSON value in the envelope parseFunctionCall reads
BodyValue == JSONparse(Trim(FindEnvelope(ParsedText).body)).value
ObjectBody ==
  /\ FindEnvelope(ParsedText).matched
  /\ JSONparse(Trim(FindEnvelope(ParsedText).body)).ok
  /\ BodyValue.k = "obj"

\* C19 as stated: for an envelope whose body is a JSON object, the call has
\* the name field of the object as its name, and as its parameters the
\* parameters field when the object has one, whatever its value, else the
\* arguments field when it has one, else the empty mapping.
C19_ParametersThenArguments ==
  (Parsing /\ ObjectBody) =>
    /\ Parsed.found
    /\ Parsed.name = BodyValue.name
    /\ Parsed.parameters =
         IF BodyValue.parameters # Absent THEN BodyValue.parameters
         ELSE IF BodyValue.arguments # Absent THEN BodyValue.arguments
         ELSE EmptyMapping

\* C19 amended: the parameters are the parameters field when it is there and
\* truthy (not null, false, 0 or ""), else the arguments field when that is
\* there and truthy, else the empty mapping; the name is the name field.
C19_TruthyParametersThenArguments ==
  (Parsing /\ ObjectBody) =>
    /\ Parsed.found
    /\ Parsed.name = BodyValue.name
    /\ Parsed.parameters =
         IF BodyValue.parameters \notin {Absent, "null", "false", "0", "''"}
           THEN BodyValue.parameters
         ELSE IF BodyValue.arguments \notin {Absent, "null", "false", "0", "''"}
           THEN BodyValue.arguments
         ELSE EmptyMapping
C19_Witness ==
  /\ Parsing
  /\ ParsedText = <<Tag("topen"), Obj("g", "null", "0"), Tag("tclose")>>
  /\ Parsed = Call("g", EmptyMapping)

\* C20: parseFunctionCall never raises; a text without an envelope, and a
\* text whose envelope holds what cannot be parsed, give null, and the loop
\* returns such a text as its answer.
C20_NeverRaises ==
  Parsing =>
    /\ pc # "rejected"
    /\ ( \/ /\ Envelopes(ParsedText, "fopen", "fclose") = {}
            /\ Envelopes(ParsedText, "topen", "tclose") = {}
         \/ ~JSONparse(Trim(FindEnvelope(ParsedText).body)).ok )
       => ( /\ pc = "resolved"
            /\ outcome = Resolved(ParsedText)
            /\ functionCall = NoCall
            /\ calls = <<>>
            /\ events = <<>>
            /\ currentMessages = messages
            /\ ~request.posted )
C20_Witness ==
  /\ Parsing
  /\ ParsedText = <<Word("hi")>> \o EnvelopeBad \o EnvelopeG
  /\ pc = "resolved"
  /\ outcome = Resolved(ParsedText)

\* nothing is on its way: both queues are empty and no stream is running
Quiet == inbox = <<>> /\ gens = <<>> /\ outbox = <<>>

\* C12: with two generate calls in flight on one instance, each promise
\* settles, and a promise that resolves carries the text the worker produced
\* for the messages of its own call.
C12_EachCallGetsItsOwnText ==
  \A c \in Callers :
    /\ promise[c].status = "resolved" =>
         promise[c].value = JsString(AnswerTo(MessagesOf(c)))
    /\ Quiet => promise[c].status # "pending"

\* the stream of the request in flight has been interrupted
Interrupted == gens # <<>> /\ gens[1].stopped

IsJson(token) == token.k = "json"

\* C21: the prompt starts with the base prompt and ends with the fixed
\* instruction block showing the <function> envelope; between them it holds
\* one compact JSON serialization per tool of the list, in the order of the
\* list, and no other; calls with the same arguments return the same prompt.
C21_PromptListsEveryToolInOrder ==
  \A i \in DOMAIN promptCall.returned :
    LET out == promptCall.returned[i]
        base == promptCall.basePrompt
        middle == SubSeq(out, Len(base) + 1, Len(out) - Len(PromptInstructions))
        listed == SelectSeq(middle, IsJson)
    IN /\ Len(out) >= Len(base) + Len(PromptInstructions)
       /\ SubSeq(out, 1, Len(base)) = base
       /\ SubSeq(out, Len(out) - Len(PromptInstructions) + 1, Len(out)) =
            PromptInstructions
       /\ \E j \in DOMAIN PromptInstructions : PromptInstructions[j].k = "fopen"
       /\ Len(listed) = Len(promptCall.tools)
       /\ \A k \in DOMAIN listed :
            /\ listed[k].value = promptCall.tools[k]
            /\ listed[k].space = 0
       /\ out = promptCall.returned[1]
C21_Witness ==
  /\ Len(promptCall.returned) = 2
  /\ Len(promptCall.tools) = 3
  /\ promptCall.tools[1] = promptCall.tools[3]
  /\ promptCall.tools[1] # promptCall.tools[2]
  /\ \E j \in DOMAIN promptCall.basePrompt : IsJson(promptCall.basePrompt[j])

\* the stored history, as a sequence of messages
History == arrays[conversationHistory]

\* C24: getHistory() right after setHistory(h) returns a sequence equal to
\* h as it was passed, and right after reset() the empty sequence; a change
\* the caller makes to an array it passed to setHistory or got from
\* getHistory leaves the stored history as it was.
C24_HistoryIsCopied ==
  /\ [] ( \A i \in DOMAIN historyLog :
            /\ (historyLog[i].op = "setHistory")
                 => ( /\ i = Len(historyLog) => History = historyLog[i].contents
                      /\ (i < Len(historyLog) /\ historyLog[i + 1].op = "getHistory")
                           => historyLog[i + 1].contents = historyLog[i].contents )
            /\ (historyLog[i].op = "reset")
                 => ( /\ i = Len(historyLog) => History = <<>>
                      /\ (i < Len(historyLog) /\ historyLog[i + 1].op = "getHistory")
                           => historyLog[i + 1].contents = <<>> ) )
  /\ [][ (historyLog' = historyLog) =>
           (conversationHistory' = conversationHistory /\ History' = History) ]_vars
C24_Witness ==
  /\ Len(historyLog) = 2
  /\ historyLog[1].op = "setHistory"
  /\ historyLog[2].op = "getHistory"
  /\ Len(historyLog[1].contents) = 1
  /\ arrays[historyLog[1].array] = <<>>
  /\ Len(arrays[historyLog[2].array]) = 1
  /\ arrays[historyLog[2].array] # historyLog[2].contents
  /\ History = historyLog[1].contents

\* C22: no step of a generateWithTools call, the generate calls it makes
\* included, changes the stored conversation history or the tool registry,
\* and none changes the array the caller passed: the call appends to its own
\* copy only, whether it ends by returning or by rejecting.
C22_LoopLeavesInstanceAndInputAlone ==
  /\ [] ( /\ Len(currentMessages) >= Len(messages)
          /\ SubSeq(currentMessages, 1, Len(messages)) = messages )
  /\ [][ (loopVars' # loopVars) =>
           ( /\ tools' = tools
             /\ arrays' = arrays
             /\ conversationHistory' = conversationHistory
             /\ (pc \in Awaiting) => messages' = messages ) ]_vars
C22_Witness ==
  /\ pc = "rejected"
  /\ outcome.value = JsError(<<Word("engine failure")>>)
  /\ Len(currentMessages) = Len(messages) + 2
  /\ Len(messages) = 3
  /\ History = <<Msg("user", <<Word("hello")>>, NoId)>>
  /\ Registered("f")


\* the messages posted to worker w, in order
PostsTo(w) == SelectSeq(posts, LAMBDA post : post.to = w)

\* the initialize call that created this.worker was resolved by 'ready'
ReadyReported == initPromise = "resolved"

\* C25: a promise returned by initialize() resolves only once the worker has
\* reported 'ready', for every call of initialize, a call made while an
\* earlier one is loading and a call made after a failed load included
C25_InitializeResolvesOnceReady ==
  [][ \A c \in Callers :
        (/\ callOf'[c].op = "initialize"
         /\ callOf'[c].result.status = "resolved"
         /\ callOf[c].result.status # "resolved")
        => ReadyReported' ]_vars

\* C26: after unload() the instance has no worker and isLoaded is false, the
\* old worker was sent 'unload' and terminated, and the next initialize,
\* generate or chat creates a fresh worker whose first message is 'init',
\* before any 'generate'
C26_UnloadThenFreshWorker ==
  /\ [](/\ worker \notin terminated
        /\ worker = 0 => ~isLoaded
        /\ \A w \in terminated : Last(PostsTo(w)).type = "unload"
        /\ \A w \in 1..created :
             /\ PostsTo(w)[1].type = "init"
             /\ \A i \in 2..Len(PostsTo(w)) : PostsTo(w)[i].type # "init")
  /\ [][ /\ (worker # 0 /\ worker' # worker) =>
             (/\ worker' = 0
              /\ ~isLoaded'
              /\ worker \in terminated'
              /\ Last(posts') = Post(worker, "unload"))
         /\ \A c \in Callers :
              (worker = 0 /\ callOf[c].op = "none" /\ callOf'[c].op # "none") =>
                (/\ worker' = created + 1
                 /\ worker' \notin terminated'
                 /\ posts' = Append(posts, Post(worker', "init"))) ]_vars

\* a second worker was created after an unload and was sent a request
C26_Witness ==
  /\ terminated = {1}
  /\ worker = 2
  /\ isLoaded
  /\ Len(PostsTo(2)) = 2
  /\ PostsTo(2)[2].type = "generate"

\* C23: after a call chat(m) that resolves with text r the history is the
\* history as it was before the call, then the user message m, then the
\* assistant message r; the request of the call is the history before the
\* call, then the user message
C23_ChatAppendsQuestionAndAnswer ==
  \A c \in Callers :
    (callOf[c].op = "chat" /\ callOf[c].result.status = "resolved") =>
      LET asked == Append(callOf[c].before, UserMessage(c))
      IN /\ callOf[c].request = asked
         /\ callOf[c].after =
              Append(asked, Msg("assistant", callOf[c].result.value.s, NoId))


\* the texts of the 'chunk' messages of a log, one after the other
RECURSIVE ChunksOf(_)
ChunksOf(log) ==
  IF log = <<>> THEN <<>>
  ELSE IF Head(log).type = "chunk" THEN Head(log).data \o ChunksOf(Tail(log))
  ELSE ChunksOf(Tail(log))

Terminal(message) == message.type \in {"complete", "error"}
Answered(r) == r <= Len(sent) /\ sent[r] # <<>> /\ Terminal(Last(sent[r]))

\* C27: for every 'generate' message the worker handles it posts zero or
\* more 'chunk' messages, then exactly one 'complete' or 'error' and nothing
\* more; the text of 'complete' is the concatenation of the chunks in order
C27_ChunksThenOneTerminal ==
  /\ [](\A r \in DOMAIN sent :
          /\ \A i \in 1..(Len(sent[r]) - 1) : sent[r][i].type = "chunk"
          /\ sent[r] # <<>> => Last(sent[r]).type \in {"chunk", "complete", "error"}
          /\ (sent[r] # <<>> /\ Last(sent[r]).type = "complete") =>
               Last(sent[r]).data = ChunksOf(sent[r]))
  /\ \A r \in 1..MaxRequests : (r <= Len(sent)) ~> Answered(r)

\* two requests were answered at the same time, one with a text of several
\* chunks, the other without an engine
C27_Witness ==
  /\ Len(sent) = 2
  /\ Answered(1)
  /\ Answered(2)
  /\ \E r \in 1..2 : Len(sent[r]) > 2 /\ Last(sent[r]).type = "complete"
  /\ \E r \in 1..2 : sent[r] = <<Error(EngineNotInitialized)>>


\* C28: generate of useWebLLM, called while isReady is false or while there
\* is no worker, rejects with 'Worker not ready' and posts no message
C28_NotReadyRejectsWithoutPost ==
  [][ \A c \in Callers :
        (/\ promise[c].status = "idle"
         /\ promise'[c].status # "idle"
         /\ workerRef = 0 \/ ~isReady)
        => (/\ promise'[c] = Rejected(WorkerNotReady)
            /\ posts' = posts
            /\ inbox' = inbox
            /\ currentGenerateOptionsRef' = currentGenerateOptionsRef) ]_vars

\* both callers were refused, and the worker had been ready and has
\* reported 'unloaded'
C28_Witness ==
  /\ promise["first"] = Rejected(WorkerNotReady)
  /\ promise["second"] = Rejected(WorkerNotReady)
  /\ workerRef = 1
  /\ ~isReady
  /\ ~isLoading
  /\ posts = <<Post(1, "init"), Post(1, "unload")>>

\* C29: isReady is true only while the active worker has reported 'ready' and
\* not 'unloaded' since, so after modelId changed it is false until the new
\* worker reports 'ready'; isLoading and isReady are never both true
C29_ReadyMeansActiveWorkerReady ==
  /\ isReady => (workerRef # 0 /\ readyWorker = workerRef)
  /\ ~(isLoading /\ isReady)


\* C30: maxToolCalls is 5 when the option is not supplied; when it is 0 or
\* negative the loop body never runs: one provider request with the
\* unmodified input messages, no call parsed, no tool executed, and the text
\* of that request returned verbatim
C30_DefaultFiveAndNoIterationAtZero ==
  pc # "idle" =>
    /\ ~options.maxToolCalls.set =>
         (/\ N = 5
          /\ Len(calls) <= 5
          /\ requests <= 6
          /\ pc = "awaitGenerate" => toolCallCount < 5
          /\ pc = "awaitFinal" => toolCallCount = 5)
    /\ (options.maxToolCalls.set /\ options.maxToolCalls.val <= 0) =>
         (/\ pc \in {"awaitFinal", "resolved", "rejected"}
          /\ requests = 1
          /\ request.posted => request = Request(messages, TRUE)
          /\ currentMessages = messages
          /\ toolCallCount = 0
          /\ functionCall = NoCall
          /\ calls = <<>>
          /\ invoked = <<>>
          /\ events = <<>>
          /\ pc = "resolved" =>
               (Len(delivered) = 1 /\ outcome = Resolved(delivered[1].data)))

\* without the option five tools were run and the sixth request was the
\* last one
C30_WitnessDefault ==
  /\ ~options.maxToolCalls.set
  /\ Len(calls) = 5
  /\ requests = 6
  /\ pc = "resolved"


\* with maxToolCalls -1 the only request was answered with a text that holds
\* a call, and that text was returned as it is
C30_Witness ==
  /\ options.maxToolCalls = OptSet(-1)
  /\ pc = "resolved"
  /\ requests = 1
  /\ delivered = <<Complete(TextCallF)>>
  /\ outcome = Resolved(TextCallF)


\* a content that is a text
IsText(content) == \A i \in DOMAIN content : content[i].k # "undefined"

\* C31: every tool message appended by generateWithTools has text content
\* for every tool result: a string is used as is, any other result (object,
\* number, boolean, null, no value at all) by its encoding
C31_ToolContentIsText ==
  /\ \A i \in DOMAIN Appended :
       Appended[i].role = "tool" => IsText(Appended[i].content)
  /\ (/\ Len(calls) > 0
      /\ pc # "awaitTool"
      /\ Last(calls).outcome.kind = "return"
      /\ Last(AppendedTools).tool_call_id = ToolCallId(Len(calls))) =>
       LET result == Last(calls).outcome.value
           content == Last(AppendedTools).content
       IN \/ content = CatchContent(JsError(<<Word("observer failed")>>))
          \/ IF result.t = "string" THEN content = result.s
             ELSE content # <<>> /\ IsText(content)


\* the body of the envelope parseFunctionCall reads is valid JSON
ValidBody ==
  /\ FindEnvelope(ParsedText).matched
  /\ JSONparse(Trim(FindEnvelope(ParsedText).body)).ok
NamedObjectBody == ObjectBody /\ BodyValue.name # Absent

\* C32: parseFunctionCall returns a call only when the body of the envelope
\* parses to an object that carries a name; a body that is valid JSON but no
\* such object gives null, so every returned call has a name
C32_ReturnedCallHasName ==
  Parsing =>
    /\ Parsed.found => (NamedObjectBody /\ Parsed.name # UndefinedName)
    /\ (ValidBody /\ ~NamedObjectBody) => Parsed = NoCall

\* the text has a <function> envelope whose body cannot be parsed and a
\* <tool_call> envelope that holds a call
BadFunctionGoodToolCall ==
  /\ Envelopes(ParsedText, "fopen", "fclose") # {}
  /\ ~JSONparse(Trim(Inside(ParsedText, FirstEnvelope(ParsedText, "fopen", "fclose")))).ok
  /\ \E e \in Envelopes(ParsedText, "topen", "tclose") :
       ParseBody(Inside(ParsedText, e)).found

\* C33: with a <function> envelope whose body is malformed and a well-formed
\* <tool_call> envelope parseFunctionCall returns null: only the first
\* matching convention is parsed, a failure to parse never falls back to the
\* other convention or to a later envelope
C33_NoFallBack ==
  Parsing =>
    /\ BadFunctionGoodToolCall =>
         (/\ Parsed = NoCall
          /\ pc = "resolved"
          /\ outcome = Resolved(ParsedText)
          /\ calls = <<>>)
    /\ (/\ Envelopes(ParsedText, "fopen", "fclose") # {}
        /\ ParseBody(Inside(ParsedText, FirstEnvelope(ParsedText, "fopen", "fclose"))) = NoCall)
       => Parsed = NoCall

\* the malformed <function> envelope comes first, then a <tool_call> envelope
\* and a <function> envelope that both hold a call
C33_Witness ==
  /\ Parsing
  /\ ParsedText = EnvelopeBad \o EnvelopeG \o EnvelopeF
  /\ BadFunctionGoodToolCall
  /\ pc = "resolved"
  /\ calls = <<>>


\* C34: the caller's onFinish and onError are handed only to the request
\* made after the loop, when maxToolCalls is reached; the requests of the
\* loop hand on temperature, maxTokens and onUpdate only, so when the loop
\* ends by its early return the caller's onFinish is never invoked
C34_ObserversOnlyOnFinalRequest ==
  pc # "idle" =>
    /\ request.posted =>
         /\ request.final = ~(toolCallCount < N)
         /\ Forwarded(request.final) =
              IF toolCallCount < N THEN {"onUpdate"} ELSE CallerObservers
    /\ Len(notified) <= 1
    /\ notified # <<>> =>
         /\ pc \in Settled
         /\ ~(toolCallCount < N)
         /\ notified[1].request = requests
         /\ notified[1].observer =
              IF pc = "resolved" THEN "onFinish" ELSE "onError"
         /\ Last(delivered).data = notified[1].value
    /\ (pc \in Settled /\ toolCallCount < N) => notified = <<>>

\* the loop ended by its early return with a call made before: nobody was
\* told
C34_Witness ==
  /\ pc = "resolved"
  /\ N = 2
  /\ toolCallCount = 1
  /\ requests = 2
  /\ outcome = Resolved(TextPlain)
  /\ notified = <<>>

\* the request after the loop told the caller's onFinish
C34_WitnessFinal ==
  /\ pc = "resolved"
  /\ N = 1
  /\ notified = <<[observer |-> "onFinish", value |-> TextPlain, request |-> 2]>>


\* C35: when generate rejects or throws during a chat call, the history
\* afterwards is the history before the call: no user message is left
\* without its assistant reply
C35_RejectedChatLeavesHistory ==
  [][ \A c \in Callers :
        (/\ callOf'[c].op = "chat"
         /\ callOf'[c].result.status = "rejected"
         /\ callOf[c].result.status # "rejected")
        => History' = callOf'[c].before ]_vars


\* C36: after reset() the history is empty and stays empty until the next
\* chat call begins, also when a chat call was in flight at the reset; the
\* history never starts with an assistant message
C36_ResetHistoryStaysEmpty ==
  /\ [](History # <<>> => History[1].role # "assistant")
  /\ [][ /\ (historyLog' # historyLog) => (History' = <<>>)
         /\ (historyLog # <<>> /\ History = <<>> /\ History' # <<>>) =>
              \E c \in Callers :
                /\ callOf'[c].op = "chat"
                /\ callOf'[c].before = <<>>
                /\ History' = <<UserMessage(c)>> ]_vars

\* the promise generate returned to caller c has settled
HasSettled(c) == promise[c].status \in {"resolved", "rejected"}

\* C37: every promise generate returned eventually settles, also the one in
\* flight when unload() terminates the worker
C37_GenerateEventuallySettles ==
  \A c \in Callers : (promise[c].status = "pending") ~> HasSettled(c)

\* C38: a 'generate' message is posted to a worker only after that worker
\* has reported 'ready', which is when 'ready' of this.worker has set
\* this.isLoaded
C38_GeneratePostedAfterReady ==
  [][ (Len(posts') > Len(posts) /\ Last(posts').type = "generate")
        => (isLoaded /\ Last(posts').to = worker) ]_vars

\* the workers that were created and not terminated
LiveWorkers == (1..created) \ terminated

\* C39: the instance holds at most one live worker, the one this.worker
\* refers to; a worker is created only when this.worker is null, and then
\* every worker created before has been terminated
C39_AtMostOneLiveWorker ==
  /\ [](/\ Cardinality(LiveWorkers) <= 1
        /\ LiveWorkers = IF worker = 0 THEN {} ELSE {worker})
  /\ [][ (created' # created) =>
           (/\ worker = 0
            /\ created' = created + 1
            /\ worker' = created'
            /\ (1..created) \subseteq terminated) ]_vars

\* C39 witness: a second worker was created after unload() terminated the
\* first, and it is still loading
C39_Witness ==
  /\ created = 2
  /\ terminated = {1}
  /\ worker = 2
  /\ ~isLoaded
  /\ LiveWorkers = {2}

====
